---- MODULE Spec2Model ----
(***************************************************************************)
(* FITREP extraction engine (pdf-processor/app/services/fitrep_extractor.py *)
(* and its consumers in backend/app/api/fitreports.py).                     *)
(*                                                                          *)
(* All arithmetic of the source that uses floats is carried out on          *)
(* integers with an explicit scale, so that every comparison of the source  *)
(* is decided exactly as the source decides it on exactly representable     *)
(* values.                                                                  *)
(***************************************************************************)
EXTENDS Integers, Sequences, FiniteSets, TLC

VARIABLES
    checkbox_fallback_mode,  \* self.checkbox_fallback_mode
    strict_no_defaults,      \* self.strict_no_defaults
    expected_count,          \* argument of extract_checkbox_values_auto
    page,                    \* what the detectors read from the page
    pc,                      \* position of the operation in progress
    result,                  \* the value returned
    calls,                   \* detectors invoked, in order
    rowinfo,                 \* per row: how the detector that supplied result decided it
    arg,                     \* the argument of the operation under study
    ret,                     \* what that operation returned
    results,                 \* self.results
    pdf_count,               \* self.pdf_count
    history                  \* the extract_from_bytes calls made on this instance

instVars == <<results, pdf_count, history>>

vars == <<checkbox_fallback_mode, strict_no_defaults, expected_count,
          page, pc, result, calls, rowinfo, arg, ret, instVars>>

-----------------------------------------------------------------------------
(* Bounds of the model *)

MaxRows == 2            \* expected_count of the pages explored
MaxTokens == 3          \* longest page-1 text, in tokens
MaxScores == 2          \* longest list of trait values converted to letters
MaxMissing == 2         \* most letters missing from a header row
MaxPages == 4           \* most pages of a document
MaxCalls == 3           \* most calls made on one extractor instance
MaxFiles == 3           \* most files of a batch
RoiW == 5               \* width in pixels of the ROI of a scored cell
RoiH == 5               \* height in pixels of the ROI of a scored cell
MaxHoles == 1           \* most unmarked pixels inside a filled mark

(* Program constants *)

NumCols == 8            \* columns A..H of the checkbox grid
DefaultCol == 4         \* the value the detectors substitute ("D")

\* An optional value (Python None or a value; a page feature not read yet or
\* read) is a sequence of length at most one.
None == <<>>
Some(v) == <<v>>

\* __init__: self.results = [], self.pdf_count = 0; no call made yet
NewInstance == results = <<>> /\ pdf_count = 0 /\ history = <<>>

Modes == {"off", "auto", "force"}
Cols == 1..NumCols

-----------------------------------------------------------------------------
(* Helpers *)

Range(s) == {s[i] : i \in DOMAIN s}

\* a token is the sequence of its characters
LowerCase == <<"a", "b", "c", "d", "e", "f", "g", "h", "i", "j", "k", "l", "m", "n", "o", "p", "q", "r", "s", "t", "u", "v", "w", "x", "y", "z">>
UpperCase == <<"A", "B", "C", "D", "E", "F", "G", "H", "I", "J", "K", "L", "M", "N", "O", "P", "Q", "R", "S", "T", "U", "V", "W", "X", "Y", "Z">>
Digits == {"0", "1", "2", "3", "4", "5", "6", "7", "8", "9"}

\* str.upper() on one character
Upper(ch) ==
    IF \E i \in DOMAIN LowerCase : LowerCase[i] = ch
    THEN UpperCase[CHOOSE i \in DOMAIN LowerCase : LowerCase[i] = ch]
    ELSE ch

IsAlnum(ch) == ch \in Range(LowerCase) \cup Range(UpperCase) \cup Digits


Fours(n) == [i \in 1..n |-> DefaultCol]

\* values for the rows found, padded with 4 up to expected_count
PadFours(values, n) ==
    [r \in 1..n |-> IF r <= Len(values) THEN values[r] ELSE DefaultCol]

PadInfo(values, n) ==
    [r \in 1..n |-> IF r <= Len(values) THEN "argmax" ELSE "none"]

\* max(range(len(v)), key=lambda i: v[i]) and np.argmax: the first maximum
ArgMaxFirst(v) ==
    CHOOSE i \in DOMAIN v :
        /\ \A j \in DOMAIN v : v[j] <= v[i]
        /\ \A j \in DOMAIN v : j < i => v[j] < v[i]

\* max(v[i] for i != best_idx)
SecondBest(v, best_idx) ==
    LET others == {v[j] : j \in DOMAIN v \ {best_idx}}
    IN  CHOOSE m \in others : \A o \in others : o <= m

\* k-th smallest element of a row (1-based), as sorted(v)[k-1]
KthSmallest(v, k) ==
    CHOOSE x \in Range(v) :
        /\ Cardinality({j \in DOMAIN v : v[j] < x}) < k
        /\ Cardinality({j \in DOMAIN v : v[j] <= x}) >= k

\* statistics.median, times 2 (the mean of the two middle values when the
\* length is even)
Median2(v) ==
    IF Len(v) % 2 = 1
    THEN 2 * KthSmallest(v, (Len(v) + 1) \div 2)
    ELSE KthSmallest(v, Len(v) \div 2) + KthSmallest(v, Len(v) \div 2 + 1)

\* result.count(4) == expected_count
AllFour(v, n) == Cardinality({i \in DOMAIN v : v[i] = DefaultCol}) = n

\* v != [4]*n and len(set(v)) != 1
NonDegenerate(v, n) == /\ v # <<>>
                       /\ v # Fours(n)
                       /\ Cardinality(Range(v)) # 1

-----------------------------------------------------------------------------
(* extract_checkbox_values_text_based *)

\* the calibrated positional thresholds of the if/elif chain
\* src/fitrep_extractor.py: the same chain without the first test
ThresholdColumnLegacy(x_pos) ==
    IF x_pos < 180 THEN 3
    ELSE IF x_pos < 250 THEN 4
    ELSE IF x_pos < 340 THEN 5
    ELSE IF x_pos < 440 THEN 6
    ELSE IF x_pos < 520 THEN 7
    ELSE IF x_pos < 600 THEN 8
    ELSE IF x_pos < 700 THEN 2
    ELSE 1

ThresholdColumn(x_pos) ==
    IF x_pos < 120 THEN 2
    ELSE IF x_pos < 180 THEN 3
    ELSE IF x_pos < 250 THEN 4
    ELSE IF x_pos < 340 THEN 5
    ELSE IF x_pos < 440 THEN 6
    ELSE IF x_pos < 520 THEN 7
    ELSE IF x_pos < 600 THEN 8
    ELSE IF x_pos < 700 THEN 2
    ELSE 1

Abs(a) == IF a < 0 THEN 0 - a ELSE a

MaxOf(S) == CHOOSE m \in S : \A o \in S : o <= m
MinOf(S) == CHOOSE m \in S : \A o \in S : m <= o

\* min(range(8), key=lambda k: abs(ordered[k] - x)): the first nearest centre
NearestCentre(ordered, x) ==
    CHOOSE k \in DOMAIN ordered :
        /\ \A j \in DOMAIN ordered : Abs(ordered[k] - x) <= Abs(ordered[j] - x)
        /\ \A j \in DOMAIN ordered : j < k => Abs(ordered[j] - x) > Abs(ordered[k] - x)

\* A header row is a map cmap from the letters found (1 = A .. 8 = H) to
\* their x.  Missing letters are interpolated "between known extremes":
\*   step = (max_x - min_x) / span; ordered[i] = min_x + (i - idx_min) * step
\* The centres are returned times span, so that they stay integers.
HeaderCentres(cmap) ==
    LET known == DOMAIN cmap
        min_x == MinOf({cmap[l] : l \in known})
        max_x == MaxOf({cmap[l] : l \in known})
        idx_min == MinOf({l \in known : cmap[l] = min_x})
        idx_max == MaxOf({l \in known : cmap[l] = max_x})
        span == IF idx_max - idx_min > 1 THEN idx_max - idx_min ELSE 1
    IN  [span |-> span,
         ordered |-> [i \in 1..NumCols |->
                        IF i \in known THEN cmap[i] * span
                        ELSE min_x * span + (i - idx_min) * (max_x - min_x)]]

\* width of a letter row: max(xs) - min(xs)
HeaderWidth(cmap) ==
    MaxOf({cmap[l] : l \in DOMAIN cmap}) - MinOf({cmap[l] : l \in DOMAIN cmap})

\* "len(uniq) >= 6 and (max(xs) - min(xs)) > width": the row is taken as header
HeaderFound(cmap, width) ==
    /\ Cardinality(DOMAIN cmap) >= 6
    /\ HeaderWidth(cmap) > width

\* text_based: uniq >= 6 and span >= 180 (the row lies above the X rows)
TextHeaderFound(cmap) ==
    /\ Cardinality(DOMAIN cmap) >= 6
    /\ HeaderWidth(cmap) >= 180

\* col_from_x(x): the first nearest centre; hc is a HeaderCentres record
ColFromX(hc, x) == NearestCentre(hc.ordered, x * hc.span)

\* the small-margin override by the strict header centres; distances are
\* compared times 100 * span (margin = max(6.0, 0.04 * spanC))
HeaderOverride(hc, x_pos, column) ==
    LET spanC == MaxOf(Range(hc.ordered)) - MinOf(Range(hc.ordered))
        margin100 == IF 600 * hc.span >= 4 * spanC THEN 600 * hc.span ELSE 4 * spanC
        idx_header == ColFromX(hc, x_pos)
        d_hdr == Abs(hc.ordered[idx_header] - x_pos * hc.span)
        d_cur == Abs(hc.ordered[column] - x_pos * hc.span)
    IN  IF 100 * d_hdr + margin100 < 100 * d_cur THEN idx_header ELSE column

\* pg.marks: x of the first X of each row of X marks, top to bottom
\* pg.header: the letter row of the page's text
TextBasedValues(pg, n) ==
    IF pg.marks = <<>> THEN Fours(n)
    ELSE [row_idx \in 1..n |->
            IF row_idx <= Len(pg.marks)
            THEN LET x_pos == pg.marks[row_idx]
                     column == ThresholdColumn(x_pos)
                 IN  IF TextHeaderFound(pg.header)
                     THEN HeaderOverride(HeaderCentres(pg.header), x_pos, column)
                     ELSE column
            ELSE DefaultCol]

\* extract_checkbox_values_text_based of src/fitrep_extractor.py: no header
\* centres are read
TextBasedValuesLegacy(pg, n) ==
    IF pg.marks = <<>> THEN Fours(n)
    ELSE [row_idx \in 1..n |->
            IF row_idx <= Len(pg.marks) THEN ThresholdColumnLegacy(pg.marks[row_idx])
            ELSE DefaultCol]

TextBasedInfo(pg, n) ==
    [row_idx \in 1..n |-> IF row_idx <= Len(pg.marks) THEN "sel" ELSE "none"]

-----------------------------------------------------------------------------
(* Grid reconstruction from vector lines (grid_vector, grid_hybrid)         *)
(* Positions are in units of 1/12 pt; the families below place lines on     *)
(* whole points and cluster at most four of them, so every cluster mean is  *)
(* an integer number of units.                                              *)

SeqSum(s) == LET Sum[i \in 0..Len(s)] == IF i = 0 THEN 0 ELSE Sum[i - 1] + s[i]
             IN  Sum[Len(s)]

\* cluster_positions(vals, tol): sort, start a new cluster when the gap to the
\* last member of the current cluster exceeds tol, return the cluster means
ClusterPositions(vals, tol) ==
    LET sorted == SortSeq(vals, LAMBDA a, b : a < b)
        Cl[i \in 0..Len(sorted)] ==
            IF i = 0 THEN <<>>
            ELSE LET prev == Cl[i - 1]
                     v == sorted[i]
                 IN  IF prev = <<>> \/ Abs(v - prev[Len(prev)][Len(prev[Len(prev)])]) > tol
                     THEN Append(prev, <<v>>)
                     ELSE [prev EXCEPT ![Len(prev)] = Append(@, v)]
        clusters == Cl[Len(sorted)]
    IN  [k \in 1..Len(clusters) |-> SeqSum(clusters[k]) \div Len(clusters[k])]

\* a variant that keeps the first n positions whatever their span
WidestGroupFirst(ps, size) ==
    IF Len(ps) <= size THEN ps ELSE SubSeq(ps, 1, size)

\* "select the widest group": among the windows of `size` consecutive sorted
\* positions, the first one of maximal span
WidestGroup(ps, size) ==
    IF Len(ps) <= size THEN ps
    ELSE LET starts == 1..(Len(ps) - size + 1)
             span(i) == ps[i + size - 1] - ps[i]
             best == CHOOSE i \in starts :
                        /\ \A j \in starts : span(j) <= span(i)
                        /\ \A j \in starts : j < i => span(j) < span(i)
         IN  SubSeq(ps, best, best + size - 1)

\* lines: [h |-> y of every long horizontal line, v |-> x of every long
\* vertical line]; None when the detector returns [4]*expected_count
GridGeometry(lines, n) ==
    IF Len(lines.h) < n + 1 \/ Len(lines.v) < 9 THEN None
    ELSE LET ys0 == ClusterPositions(lines.h, 4 * 12)
             xs0 == ClusterPositions(lines.v, 4 * 12)
         IN  IF Len(ys0) < n + 1 \/ Len(xs0) < 9 THEN None
             ELSE LET ys == WidestGroup(ys0, n + 1)
                      xs == WidestGroup(xs0, 9)
                  IN  IF Len(ys) # n + 1 \/ Len(xs) # 9 THEN None
                      ELSE Some([ys |-> ys, xs |-> xs])

-----------------------------------------------------------------------------
(* extract_checkbox_values_grid_vector *)

\* row_scores: per column, the summed length of the diagonal strokes whose
\* midpoint lies in the cell's centre ROI.
\* best > max(1.0, second * 1.15)
VectorMarginOK(best, second) == best > 1 /\ 20 * best > 23 * second

GridVectorRow(row_scores) ==
    IF \E c \in DOMAIN row_scores : row_scores[c] > 0
    THEN LET best_idx == ArgMaxFirst(row_scores)
             best == row_scores[best_idx]
             second == SecondBest(row_scores, best_idx)
         IN  IF VectorMarginOK(best, second) THEN best_idx ELSE DefaultCol
    ELSE DefaultCol

GridVectorRowInfo(row_scores) ==
    IF \E c \in DOMAIN row_scores : row_scores[c] > 0
    THEN LET best_idx == ArgMaxFirst(row_scores)
         IN  IF VectorMarginOK(row_scores[best_idx], SecondBest(row_scores, best_idx))
             THEN "sel" ELSE "weak"
    ELSE "none"

\* pg.lines: the long grid lines; pg.strokes: per cell of the reconstructed
\* grid, the stroke score
GridVectorValues(pg, n) ==
    IF GridGeometry(pg.lines, n) = None THEN Fours(n)
    ELSE [r \in 1..n |-> GridVectorRow(pg.strokes[r])]

GridVectorInfo(pg, n) ==
    IF GridGeometry(pg.lines, n) = None THEN [r \in 1..n |-> "none"]
    ELSE [r \in 1..n |-> GridVectorRowInfo(pg.strokes[r])]

-----------------------------------------------------------------------------
(* extract_checkbox_values_grid_hybrid *)

\* score_cell: (1.0 * dark) + (0.6 * edge) + (0.8 * diag) + (50000.0 if has_x),
\* times 10.  cell: [dark, edge, diag, has_x]
\* a variant that adds the OCR bonus when the OCR did not read an X
ScoreCell10HintInverted(cell) ==
    10 * cell.dark + 6 * cell.edge + 8 * cell.diag
        + (IF cell.has_x THEN 0 ELSE 500000)

ScoreCell10(cell) ==
    10 * cell.dark + 6 * cell.edge + 8 * cell.diag
        + (IF cell.has_x THEN 500000 ELSE 0)

\* adj = [s - 0.90 * base for s in scores] with base the median of the row's
\* eight scores; adj is kept times 200
HybridAdj200(scores10) ==
    LET base2 == Median2(scores10)
    IN  [c \in DOMAIN scores10 |-> 20 * scores10[c] - 9 * base2]

\* best > max(1.0, second * 1.20), on values times 200
HybridMarginOK(best200, second200) ==
    best200 > 200 /\ 5 * best200 > 6 * second200

GridHybridRow(cells) ==
    LET scores10 == [c \in DOMAIN cells |-> ScoreCell10(cells[c])]
        adj == HybridAdj200(scores10)
        best_idx == ArgMaxFirst(adj)
    IN  IF HybridMarginOK(adj[best_idx], SecondBest(adj, best_idx))
        THEN best_idx ELSE DefaultCol

GridHybridRowInfo(cells) ==
    LET scores10 == [c \in DOMAIN cells |-> ScoreCell10(cells[c])]
        adj == HybridAdj200(scores10)
        best_idx == ArgMaxFirst(adj)
    IN  IF HybridMarginOK(adj[best_idx], SecondBest(adj, best_idx))
        THEN "sel" ELSE "weak"

\* pg.cells: per cell of the grid, what the raster shows in its centre ROI
GridHybridValues(pg, n) ==
    IF GridGeometry(pg.lines, n) = None THEN Fours(n)
    ELSE [r \in 1..n |-> GridHybridRow(pg.cells[r])]

GridHybridInfo(pg, n) ==
    IF GridGeometry(pg.lines, n) = None THEN [r \in 1..n |-> "none"]
    ELSE [r \in 1..n |-> GridHybridRowInfo(pg.cells[r])]

\* the adjusted scores the rows are compared on, times 200
GridHybridAdj(pg, n) ==
    IF GridGeometry(pg.lines, n) = None THEN None
    ELSE Some([r \in 1..n |->
                 HybridAdj200([c \in 1..NumCols |-> ScoreCell10(pg.cells[r][c])])])

-----------------------------------------------------------------------------
(* extract_checkbox_values_grid_markfill and extract_checkbox_values_grid_image *)

\* Both read their weights with self._fparam(name, default).  The class
\* defines no attribute _fparam, so the call raises AttributeError, which the
\* method's "except Exception" turns into [4] * expected_count.
HasFparam == FALSE

\* markfill: (w_dark * s_dark) + (w_edge * edge) with the defaults 1.0 and
\* 0.8, times 10
MarkfillScore10(cell) == 10 * cell.dark + 8 * cell.edge

\* best > max(1.0, second * conf_m), conf_m = 1.15, on values times 200
MarkfillMarginOK(best200, second200) ==
    best200 > 200 /\ 20 * best200 > 23 * second200

\* med = statistics.median(scores); adj = [s - beta * med for s in scores]
GridMarkfillRow(cells) ==
    LET scores10 == [c \in DOMAIN cells |-> MarkfillScore10(cells[c])]
        adj == HybridAdj200(scores10)
        best_idx == ArgMaxFirst(adj)
    IN  IF MarkfillMarginOK(adj[best_idx], SecondBest(adj, best_idx))
        THEN best_idx ELSE DefaultCol

\* column centres come from the vertical lines or, without any, from the
\* header row read by OCR; without either the detector returns at once
MarkfillGeometry(pg) == pg.lines.v # <<>> \/ HeaderFound(pg.ocr_header, 150)

GridMarkfillValues(pg, n) ==
    IF ~MarkfillGeometry(pg) THEN Fours(n)
    ELSE IF ~HasFparam THEN Fours(n)
    ELSE [r \in 1..n |-> GridMarkfillRow(pg.cells[r])]

GridMarkfillAdj(pg, n) ==
    IF ~MarkfillGeometry(pg) \/ ~HasFparam THEN None
    ELSE Some([r \in 1..n |->
                 HybridAdj200([c \in 1..NumCols |-> MarkfillScore10(pg.cells[r][c])])])

\* grid_image: baselines[ci] = median over the rows of column ci;
\* adj = scores[i] - beta * baselines[i], kept times 200
ImageAdj200(cells, r) ==
    [c \in 1..NumCols |->
        20 * ScoreCell10(cells[r][c])
            - 9 * Median2([q \in DOMAIN cells |-> ScoreCell10(cells[q][c])])]

\* "if best <= 0 or (second > -1e9 and best < second * conf_m)": 4
GridImageRow(cells, r) ==
    LET adj == ImageAdj200(cells, r)
        best_idx == ArgMaxFirst(adj)
        best == adj[best_idx]
        second == SecondBest(adj, best_idx)
    IN  IF best <= 0 \/ 20 * best < 23 * second THEN DefaultCol ELSE best_idx

\* no row peak in the projection: [4] * expected_count
GridImageValues(pg, n) ==
    IF pg.cells = <<>> THEN Fours(n)
    ELSE IF ~HasFparam THEN Fours(n)
    ELSE PadFours([r \in DOMAIN pg.cells |-> GridImageRow(pg.cells, r)], n)

GridImageAdj(pg, n) ==
    IF pg.cells = <<>> \/ ~HasFparam THEN None
    ELSE Some([r \in DOMAIN pg.cells |-> ImageAdj200(pg.cells, r)])

-----------------------------------------------------------------------------
(* The detectors that take the arg-max of each row without a margin *)

\* extract_checkbox_values_vector_paths.  pg.paths: x of the leftmost
\* crossing of each row of crossing diagonal pairs, top to bottom
VectorPathsFound(pg) == HeaderFound(pg.header, 150) /\ pg.paths # <<>>

VectorPathsValues(pg, n) ==
    IF ~VectorPathsFound(pg) THEN Fours(n)
    ELSE LET ordered == HeaderCentres(pg.header)
             centers == SubSeq(pg.paths, 1, IF Len(pg.paths) < n THEN Len(pg.paths) ELSE n)
         IN  PadFours([r \in DOMAIN centers |-> ColFromX(ordered, centers[r])], n)

VectorPathsInfo(pg, n) ==
    IF ~VectorPathsFound(pg) THEN [r \in 1..n |-> "none"]
    ELSE PadInfo(SubSeq(pg.paths, 1, IF Len(pg.paths) < n THEN Len(pg.paths) ELSE n), n)

\* extract_checkbox_values_image_peaks.  pg.peaks: the row clusters kept (at
\* most expected_count, top to bottom), each the peak strength per column
ImagePeaksFound(pg) == HeaderFound(pg.header, 150) /\ pg.peaks # <<>>

ImagePeaksValues(pg, n) ==
    IF ~ImagePeaksFound(pg) THEN Fours(n)
    ELSE PadFours([r \in DOMAIN pg.peaks |-> ArgMaxFirst(pg.peaks[r])], n)

ImagePeaksInfo(pg, n) ==
    IF ~ImagePeaksFound(pg) THEN [r \in 1..n |-> "none"] ELSE PadInfo(pg.peaks, n)

\* extract_checkbox_values_row_bands.  pg.bands: the row-energy peaks kept (at
\* most expected_count, top to bottom), each the dark score per column
RowBandsFound(pg) == HeaderFound(pg.header, 150) /\ pg.bands # <<>>

RowBandsValues(pg, n) ==
    IF ~RowBandsFound(pg) THEN Fours(n)
    ELSE PadFours([r \in DOMAIN pg.bands |-> ArgMaxFirst(pg.bands[r])], n)

RowBandsInfo(pg, n) ==
    IF ~RowBandsFound(pg) THEN [r \in 1..n |-> "none"] ELSE PadInfo(pg.bands, n)

\* extract_checkbox_values_ocr_fallback.  pg.ocr_header: the letter row read
\* by OCR; pg.ocr_rows: the bands below it that lie inside the image, each
\* the darkness of the slice at every centre
OcrFallbackFound(pg) == HeaderFound(pg.ocr_header, 200)

\* best_col = 4, best_dark = -1; "if dark > best_dark" keeps the first maximum;
\* the column is col_from_x(int(cx))
OcrFallbackRow(ordered, darks) ==
    LET k == ArgMaxFirst(darks)
    IN  IF darks[k] > -1 THEN ColFromX(ordered, ordered.ordered[k] \div ordered.span)
        ELSE DefaultCol

OcrFallbackValues(pg, n) ==
    IF ~OcrFallbackFound(pg) THEN Fours(n)
    ELSE LET ordered == HeaderCentres(pg.ocr_header)
         IN  PadFours([r \in DOMAIN pg.ocr_rows |-> OcrFallbackRow(ordered, pg.ocr_rows[r])], n)

OcrFallbackInfo(pg, n) ==
    IF ~OcrFallbackFound(pg) THEN [r \in 1..n |-> "none"] ELSE PadInfo(pg.ocr_rows, n)

-----------------------------------------------------------------------------
(* extract_checkbox_values_auto *)

\* "if gv and gv != [4] * expected_count and len(set(gv)) != 1"
Accepts(v, n) == NonDegenerate(v, n)

\* "if vp and vp != [4] * expected_count"
AcceptsVectorPaths(v, n) == v # <<>> /\ v # Fours(n)

\* fb or tb
OrElse(fb, tb_) == IF fb # <<>> THEN fb ELSE tb_

\* the force branch: result = fb or tb
ForceSelection(pg, n) ==
    LET tb_ == TextBasedValues(pg, n)
        fb == OcrFallbackValues(pg, n)
    IN  [result |-> OrElse(fb, tb_),
         calls |-> <<"text_based", "ocr_fallback">>,
         rowinfo |-> IF fb # <<>> THEN OcrFallbackInfo(pg, n) ELSE TextBasedInfo(pg, n)]

\* the auto branch down to "result = fb or tb": the nested if/else chain
AutoSelection(pg, n) ==
    LET tb_ == TextBasedValues(pg, n)
        gv == GridVectorValues(pg, n)
        mf == GridMarkfillValues(pg, n)
        gh == GridHybridValues(pg, n)
        rb == RowBandsValues(pg, n)
        ip == ImagePeaksValues(pg, n)
        vp == VectorPathsValues(pg, n)
        gi == GridImageValues(pg, n)
        fb == OcrFallbackValues(pg, n)
    IN  IF Accepts(gv, n)
        THEN [result |-> gv, rowinfo |-> GridVectorInfo(pg, n),
              calls |-> <<"text_based", "grid_vector">>]
        ELSE IF Accepts(mf, n)
        THEN [result |-> mf, rowinfo |-> [r \in 1..n |-> "sel"],
              calls |-> <<"text_based", "grid_vector", "grid_markfill">>]
        ELSE IF Accepts(gh, n)
        THEN [result |-> gh, rowinfo |-> GridHybridInfo(pg, n),
              calls |-> <<"text_based", "grid_vector", "grid_markfill", "grid_hybrid">>]
        ELSE IF Accepts(rb, n)
        THEN [result |-> rb, rowinfo |-> RowBandsInfo(pg, n),
              calls |-> <<"text_based", "grid_vector", "grid_markfill", "grid_hybrid",
                          "row_bands">>]
        ELSE IF Accepts(ip, n)
        THEN [result |-> ip, rowinfo |-> ImagePeaksInfo(pg, n),
              calls |-> <<"text_based", "grid_vector", "grid_markfill", "grid_hybrid",
                          "row_bands", "image_peaks">>]
        ELSE IF AcceptsVectorPaths(vp, n)
        THEN [result |-> vp, rowinfo |-> VectorPathsInfo(pg, n),
              calls |-> <<"text_based", "grid_vector", "grid_markfill", "grid_hybrid",
                          "row_bands", "image_peaks", "vector_paths">>]
        ELSE IF Accepts(gi, n)
        THEN [result |-> gi, rowinfo |-> [r \in 1..n |-> "sel"],
              calls |-> <<"text_based", "grid_vector", "grid_markfill", "grid_hybrid",
                          "row_bands", "image_peaks", "vector_paths", "grid_image">>]
        ELSE [result |-> OrElse(fb, tb_),
              rowinfo |-> IF fb # <<>> THEN OcrFallbackInfo(pg, n) ELSE TextBasedInfo(pg, n),
              calls |-> <<"text_based", "grid_vector", "grid_markfill", "grid_hybrid",
                          "row_bands", "image_peaks", "vector_paths", "grid_image",
                          "ocr_fallback">>]

\* "If both alternates agree on a non-1, take it; else leave as-is"
MergedRow(val, gh2, rb2, i) ==
    IF val # 1 THEN val
    ELSE LET candidates == (IF gh2 # <<>> THEN <<gh2[i]>> ELSE <<>>)
                              \o (IF rb2 # <<>> THEN <<rb2[i]>> ELSE <<>>)
             non1 == SelectSeq(candidates, LAMBDA v : v # 0 /\ v # 1)
         IN  IF Len(non1) >= 2 /\ non1[1] = non1[2] THEN non1[1] ELSE val

\* "if ... 1 in result": recheck the rows that read 1
Recheck(sel, pg, n) ==
    IF Len(sel.result) = n /\ 1 \in Range(sel.result)
    THEN LET gh2 == GridHybridValues(pg, n)
             rb2 == RowBandsValues(pg, n)
             merged == [i \in 1..n |-> MergedRow(sel.result[i], gh2, rb2, i)]
         IN  [result |-> merged,
              rowinfo |-> [i \in 1..n |-> IF merged[i] # sel.result[i] THEN "merged"
                                          ELSE sel.rowinfo[i]],
              calls |-> sel.calls \o <<"grid_hybrid", "row_bands">>]
    ELSE sel

\* a variant without the strict filter
StrictResultSkipped(run, strict, n) == run

\* "if result.count(4) == expected_count: return None"
StrictResult(run, strict, n) ==
    IF strict /\ Len(run.result) = n /\ AllFour(run.result, n)
    THEN [run EXCEPT !.result = None]
    ELSE run

\* a variant that applies the strict filter in mode off as well
AutoRunStrictInOff(pg, mode, strict, n) ==
    StrictResult([result |-> TextBasedValues(pg, n), rowinfo |-> TextBasedInfo(pg, n),
                  calls |-> <<"text_based">>], strict, n)

\* the whole of extract_checkbox_values_auto: what it returns, the detectors
\* it invoked in order, and how the supplying detector decided each row
AutoRun(pg, mode, strict, n) ==
    IF mode = "off"
    THEN [result |-> TextBasedValues(pg, n), rowinfo |-> TextBasedInfo(pg, n),
          calls |-> <<"text_based">>]
    ELSE IF mode = "force"
    THEN StrictResult(ForceSelection(pg, n), strict, n)
    ELSE StrictResult(Recheck(AutoSelection(pg, n), pg, n), strict, n)

-----------------------------------------------------------------------------
(* extract_all_edipis *)

\* The text is a sequence of tokens separated by non-word characters; a token
\* is a run of digits [id, len].  r'\b(\d{10})\b' matches exactly the runs of
\* ten digits.
EdipiMatches(text) == SelectSeq(text, LAMBDA t : t.len = 10)

\* a variant that keeps every match
UniqueEdipisKeepAll(all_edipis) == all_edipis

\* "Remove duplicates while preserving order"
UniqueEdipis(all_edipis) ==
    LET U[i \in 0..Len(all_edipis)] ==
            IF i = 0 THEN <<>>
            ELSE IF all_edipis[i] \in Range(U[i - 1]) THEN U[i - 1]
                 ELSE Append(U[i - 1], all_edipis[i])
    IN  U[Len(all_edipis)]

EdipiKeys == <<"marine_edipi", "rs_edipi", "ro_edipi">>

\* the dict of the roles assigned, or None when it is empty
ExtractAllEdipis(text) ==
    LET unique_edipis == UniqueEdipis(EdipiMatches(text))
        present == {i \in 1..3 : Len(unique_edipis) >= i}
    IN  IF present = {} THEN None
        ELSE [k \in {EdipiKeys[i] : i \in present} |->
                unique_edipis[CHOOSE i \in present : EdipiKeys[i] = k]]

-----------------------------------------------------------------------------
(* Pages *)

\* What a row of the form shows to one detector: <<>> nothing, <<c>> one
\* clear mark in column c, <<c, d>> a mark in c and a nearly as strong one in d
MarkCols == {1, 4, 5}
Kinds == {<<>>} \cup {<<c>> : c \in MarkCols} \cup {<<5, 6>>}

\* A pattern gives the kind of the first row and the kind of every other row
Blank == <<<<>>, <<>>>>
Patterns == {Blank,
             <<<<1>>, <<5>>>>, <<<<5>>, <<4>>>>, <<<<5>>, <<5>>>>, <<<<4>>, <<4>>>>,
             <<<<1>>, <<1>>>>, <<<<5>>, <<5, 6>>>>, <<<<5>>, <<>>>>}

KindAt(p, r) == IF r = 1 THEN p[1] ELSE p[2]

\* rows 1..n of a pattern that show something, top to bottom
ShownRows(p, n) ==
    SelectSeq([r \in 1..n |-> KindAt(p, r)], LAMBDA k : k # <<>>)

\* a row of eight measurements: hi at the mark, lo at the competing mark,
\* bg elsewhere
RowOf(k, hi, lo, bg) ==
    [c \in 1..NumCols |->
        IF k # <<>> /\ c = k[1] THEN hi
        ELSE IF Len(k) = 2 /\ c = k[2] THEN lo
        ELSE bg]

\* the A..H letter row of the form, in points, and as OCR reads it at scale 3
FullHeader == <<60, 100, 150, 215, 295, 390, 480, 560>>
FullOcrHeader == [l \in 1..NumCols |-> 3 * FullHeader[l]]

\* the rules of the grid: n + 1 horizontal and 9 vertical lines
GridLines(n) ==
    [h |-> [i \in 1..(n + 1) |-> 12 * (300 + 40 * i)],
     v |-> [j \in 1..(NumCols + 1) |-> 12 * (40 + 60 * j)]]
NoLines == [h |-> <<>>, v |-> <<>>]

CellOf(dark) == [dark |-> dark, edge |-> 0, diag |-> 0, has_x |-> FALSE]

Features == {"marks", "strokes", "cells", "paths", "peaks", "bands", "ocr_rows"}

\* seed: for every feature the pattern it shows; gate: which anchors exist
MkPage(seed, gate, n) ==
    [header     |-> IF gate \in {"noheader", "none"} THEN <<>> ELSE FullHeader,
     ocr_header |-> IF gate \in {"noocr", "none"} THEN <<>> ELSE FullOcrHeader,
     lines      |-> IF gate \in {"nolines", "none"} THEN NoLines ELSE GridLines(n),
     marks      |-> LET sh == ShownRows(seed["marks"], n)
                    IN  [r \in DOMAIN sh |-> FullHeader[sh[r][1]]],
     paths      |-> LET sh == ShownRows(seed["paths"], n)
                    IN  [r \in DOMAIN sh |-> FullHeader[sh[r][1]]],
     strokes    |-> [r \in 1..n |-> RowOf(KindAt(seed["strokes"], r), 22, 20, 0)],
     cells      |-> [r \in 1..n |->
                        LET row == RowOf(KindAt(seed["cells"], r), 400, 380, 100)
                        IN  [c \in 1..NumCols |-> CellOf(row[c])]],
     peaks      |-> LET sh == ShownRows(seed["peaks"], n)
                    IN  [r \in DOMAIN sh |-> RowOf(sh[r], 50, 45, 0)],
     bands      |-> LET sh == ShownRows(seed["bands"], n)
                    IN  [r \in DOMAIN sh |-> RowOf(sh[r], 50, 45, 10)],
     ocr_rows   |-> [r \in 1..n |-> RowOf(KindAt(seed["ocr_rows"], r), 50, 45, 10)]]

\* at most two features show marks
SeedsTwo ==
    {[f \in Features |-> IF f = f1 THEN p1 ELSE IF f = f2 THEN p2 ELSE Blank] :
        f1 \in Features, f2 \in Features, p1 \in Patterns, p2 \in Patterns}

\* one feature and the two the recheck reads
SeedsRecheck ==
    {[f \in Features |-> IF f = "cells" THEN pc_ ELSE IF f = "bands" THEN pb
                         ELSE IF f = fx THEN px ELSE Blank] :
        fx \in {"strokes", "peaks", "paths"}, px \in {<<<<1>>, <<5>>>>, <<<<1>>, <<1>>>>},
        pc_ \in Patterns, pb \in Patterns}

SeedsOne ==
    {[f \in Features |-> IF f = f1 THEN p1 ELSE Blank] :
        f1 \in Features, p1 \in Patterns}

Pages(n) ==
    {MkPage(sd, "full", n) : sd \in SeedsTwo \cup SeedsRecheck}
        \cup {MkPage(sd, g, n) : sd \in SeedsOne, g \in {"noheader", "noocr", "nolines"}}

-----------------------------------------------------------------------------
(* _extract_from_document, extract_from_bytes *)

\* the administrative scalars the page-1 locators put into data
AdminFields == {"fitrep_id", "last_name", "grade", "occ", "to_date",
                "marine_edipi", "rs_edipi", "ro_edipi", "rs_last_name", "ro_last_name"}

\* A document d:
\*   openable      fitz.open succeeds
\*   npages        len(doc)
\*   found         the administrative scalars the locators find on page 1
\*   raises        the page-1 step that raises, if any: "ocr" (pytesseract on
\*                 the rendered page), "names" (extract_rs_ro_names_coordinate_based,
\*                 called outside any inner try), "occ" (page.get_text("blocks")
\*                 of the occasion-code search), or "none"
\*   not_observed  what check_not_observed returns for page 1
\*   seed          what the trait pages show to the detectors

\* a variant in which the signal is never seen
NotObservedIgnored(d) == FALSE

\* not_observed = self.check_not_observed(img, text1)
NotObservedSet(d) == d.not_observed

\* page k (2..4) of the document, with n rows
PageAt(d, k, n) == MkPage(d.seed, "full", n)

\* the rows asked of page k: 5 for pages 2 and 3, 4 for page 4
PageRows(k) == IF k = 4 THEN 4 ELSE 5

\* the page a key of the returned dict reports
PageOfKey(key) ==
    IF key = "page2_values" THEN 2 ELSE IF key = "page3_values" THEN 3 ELSE 4

\* "page2_values = self.extract_checkbox_values_auto(doc, 1, 5)" when the page
\* exists, else []; stored as "v if v else None"
PageValues(d, k, mode, strict) ==
    IF d.npages > k - 1
    THEN AutoRun(PageAt(d, k, PageRows(k)), mode, strict, PageRows(k)).result
    ELSE None

\* the dict returned when nothing stops the extraction: a key for each scalar
\* found, and the three page keys
ExtractedData(d, mode, strict) ==
    [key \in (IF d.npages > 0 THEN d.found ELSE {})
              \cup {"page2_values", "page3_values", "page4_values"} |->
        IF key \in {"page2_values", "page3_values", "page4_values"}
        THEN PageValues(d, PageOfKey(key), mode, strict)
        ELSE <<"text", key>>]

\* the calls of extract_checkbox_values_auto made for pages 2..4, in order
AutoCalls(d) ==
    (IF d.npages > 1 THEN <<"auto:2">> ELSE <<>>)
        \o (IF d.npages > 2 THEN <<"auto:3">> ELSE <<>>)
        \o (IF d.npages > 3 THEN <<"auto:4">> ELSE <<>>)

\* _extract_from_document on an open document: the value returned (None or
\* Some(data)), the outcome, and the steps taken in order
ExtractFromDocument(d, mode, strict) ==
    IF d.npages > 0 /\ d.raises # "none"
    THEN [ret |-> None, outcome |-> "failed",
          events |-> <<"page1", "except", "close">>]
    ELSE IF d.npages > 0 /\ NotObservedSet(d)
    THEN [ret |-> None, outcome |-> "not_observed",
          events |-> <<"page1", "check_not_observed", "close", "close">>]
    ELSE [ret |-> Some(ExtractedData(d, mode, strict)), outcome |-> "extracted",
          events |-> (IF d.npages > 0 THEN <<"page1", "check_not_observed">> ELSE <<>>)
                        \o AutoCalls(d) \o <<"close", "close">>]

\* extract_from_pdf: fitz.open(str(pdf_path)); on an exception return None,
\* else _extract_from_document
ExtractFromPdf(d, mode, strict) ==
    IF ~d.openable
    THEN [ret |-> None, outcome |-> "failed", events |-> <<"open_failed">>]
    ELSE LET run == ExtractFromDocument(d, mode, strict)
         IN  [run EXCEPT !.events = <<"open">> \o @]

\* a variant that goes on with the document although fitz.open raised
ExtractFromBytesUnguarded(d, mode, strict) ==
    LET run == ExtractFromDocument(d, mode, strict)
    IN  [run EXCEPT !.events = <<"open">> \o @]

\* extract_from_bytes: fitz.open, then _extract_from_document
ExtractFromBytes(d, mode, strict) ==
    IF ~d.openable
    THEN [ret |-> None, outcome |-> "failed", events |-> <<"open_failed">>]
    ELSE LET run == ExtractFromDocument(d, mode, strict)
         IN  [run EXCEPT !.events = <<"open">> \o @]

-----------------------------------------------------------------------------
(* Specification of extract_checkbox_values_auto on one page *)

InitAuto ==
    /\ NewInstance
    /\ checkbox_fallback_mode \in Modes
    /\ strict_no_defaults \in BOOLEAN
    /\ expected_count = MaxRows
    /\ page \in Pages(MaxRows)
    /\ pc = "call"
    /\ result = None
    /\ calls = <<>>
    /\ rowinfo = <<>>
    /\ arg = None
    /\ ret = None

ExtractCheckboxValuesAuto ==
    /\ pc = "call"
    /\ \E run \in {AutoRun(page, checkbox_fallback_mode, strict_no_defaults, expected_count)} :
           /\ result' = run.result
           /\ calls' = run.calls
           /\ rowinfo' = run.rowinfo
    /\ pc' = "done"
    /\ UNCHANGED <<checkbox_fallback_mode, strict_no_defaults, expected_count, page,
                   arg, ret>>
    /\ UNCHANGED instVars

NextAuto == ExtractCheckboxValuesAuto

SpecAuto == InitAuto /\ [][NextAuto]_vars

-----------------------------------------------------------------------------
(* Claims about extract_checkbox_values_auto (SpecAuto) *)

\* C1: with strict_no_defaults = true and mode auto or force, a row whose best
\* adjusted score does not clear the acceptance margin is reported as unknown
\* and never as the default value 4, also when other rows were resolved.
C1_BelowMarginRowNeverDefault ==
    (/\ pc = "done"
     /\ strict_no_defaults
     /\ checkbox_fallback_mode \in {"auto", "force"})
        => \A r \in 1..expected_count :
              rowinfo[r] = "weak" => (result = None \/ result[r] # DefaultCol)

\* C2: with strict_no_defaults = true, in every mode, a row for which no mark
\* is detected yields an explicit unknown and never the value 4; in
\* particular not in mode off.
C2_NoMarkRowNeverFour ==
    (pc = "done" /\ strict_no_defaults)
        => \A r \in 1..expected_count :
              rowinfo[r] = "none" => (result = None \/ result[r] # DefaultCol)

-----------------------------------------------------------------------------
(* Specification of extract_all_edipis on a page-1 text *)

EdipiIds == {"a", "b", "c"}
Tokens == [id : EdipiIds, len : {9, 10}]

SeqsUpTo(S, n) == UNION {[1..k -> S] : k \in 0..n}

InitEdipi ==
    /\ NewInstance
    /\ arg \in SeqsUpTo(Tokens, MaxTokens)
    /\ pc = "call"
    /\ ret = None
    /\ checkbox_fallback_mode = "off"
    /\ strict_no_defaults = TRUE
    /\ expected_count = 0
    /\ page = None
    /\ result = None
    /\ calls = <<>>
    /\ rowinfo = <<>>

CallExtractAllEdipis ==
    /\ pc = "call"
    /\ ret' = ExtractAllEdipis(arg)
    /\ pc' = "done"
    /\ UNCHANGED <<checkbox_fallback_mode, strict_no_defaults, expected_count, page,
                   result, calls, rowinfo, arg>>
    /\ UNCHANGED instVars

NextEdipi == CallExtractAllEdipis

SpecEdipi == InitEdipi /\ [][NextEdipi]_vars

\* the k-th ten-digit number in order of first occurrence: it occurs in the
\* text and exactly k - 1 different ten-digit numbers occur before its first
\* occurrence
IsKthDistinct(text, t, k) ==
    /\ t.len = 10
    /\ \E i \in DOMAIN text :
          /\ text[i] = t
          /\ \A j \in 1..(i - 1) : text[j] # t
          /\ Cardinality({text[j] : j \in {q \in 1..(i - 1) : text[q].len = 10}}) = k - 1

DistinctEdipis(text) == {text[i] : i \in {q \in DOMAIN text : text[q].len = 10}}

\* C9 (as stated): the roles follow the position in the list of ten-digit
\* numbers found in document order: the first found is the subject, the
\* second found the reporting official, the third found the reviewing official.
C9_RolesByPositionFound ==
    pc = "done" =>
        LET found == EdipiMatches(arg)
        IN  \A i \in 1..3 :
               Len(found) >= i =>
                  /\ ret # None
                  /\ EdipiKeys[i] \in DOMAIN ret
                  /\ ret[EdipiKeys[i]] = found[i]

\* C9 (amended): the roles follow the position in the list of distinct
\* ten-digit numbers in order of first occurrence; a role is present exactly
\* when that many distinct numbers exist, so with two distinct numbers the
\* reporting official is populated and the reviewing official is absent; the
\* call always returns.
C9_RolesByFirstOccurrence ==
    pc = "done" =>
        LET d == Cardinality(DistinctEdipis(arg))
        IN  /\ (d = 0) <=> (ret = None)
            /\ d > 0 => \A i \in 1..3 :
                  /\ (EdipiKeys[i] \in DOMAIN ret) <=> (d >= i)
                  /\ d >= i => IsKthDistinct(arg, ret[EdipiKeys[i]], i)

\* two distinct numbers, one of them repeated before the other appears
C9_Witness ==
    /\ pc = "done"
    /\ Cardinality(DistinctEdipis(arg)) = 2
    /\ Len(EdipiMatches(arg)) = 3
    /\ EdipiMatches(arg)[1] = EdipiMatches(arg)[2]
    /\ ret # None
    /\ "rs_edipi" \in DOMAIN ret
    /\ "ro_edipi" \notin DOMAIN ret

-----------------------------------------------------------------------------
(* score_to_letter in the upload paths of backend/app/api/fitreports.py *)

Letters == <<"A", "B", "C", "D", "E", "F", "G", "H">>

\* process_single_fitrep_for_rs: mapping.get(score, 'D')
ScoreToLetterForRs(score) == IF score \in 1..8 THEN Letters[score] ELSE "D"

\* process_single_fitrep_for_rs, when it creates the TraitScore rows: the
\* same table
ScoreToLetterTraitScore(score) == IF score \in 1..8 THEN Letters[score] ELSE "D"

\* process_fitrep_files_local: the if/elif chain up to 5, else 'D'
ScoreToLetterLocal(score) ==
    IF score = 1 THEN "A"
    ELSE IF score = 2 THEN "B"
    ELSE IF score = 3 THEN "C"
    ELSE IF score = 4 THEN "D"
    ELSE IF score = 5 THEN "E"
    ELSE "D"

InitLetter ==
    /\ NewInstance
    /\ arg \in SeqsUpTo(Cols, MaxScores)
    /\ pc = "call"
    /\ ret = None
    /\ calls = <<>>
    /\ checkbox_fallback_mode = "off"
    /\ strict_no_defaults = TRUE
    /\ expected_count = 0
    /\ page = None
    /\ result = None
    /\ rowinfo = <<>>

\* multi-rs-upload: trait_scores[TRAIT_NAMES[i]] = score_to_letter(score)
ProcessSingleFitrepForRs ==
    /\ pc = "call"
    /\ ret' = [i \in DOMAIN arg |-> ScoreToLetterForRs(arg[i])]
    /\ calls' = <<"process_single_fitrep_for_rs">>
    /\ pc' = "stored"
    /\ UNCHANGED <<checkbox_fallback_mode, strict_no_defaults, expected_count, page,
                   result, rowinfo, arg>>
    /\ UNCHANGED instVars

\* ... then score_letter = score_to_letter(all_scores[i]) of each TraitScore
CreateTraitScores ==
    /\ pc = "stored"
    /\ ret' = [i \in DOMAIN arg |-> ScoreToLetterTraitScore(arg[i])]
    /\ calls' = Append(calls, "create_trait_scores")
    /\ pc' = "done"
    /\ UNCHANGED <<checkbox_fallback_mode, strict_no_defaults, expected_count, page,
                   result, rowinfo, arg>>
    /\ UNCHANGED instVars

\* auto-upload and smart-upload: trait_scores[trait_name] = score_to_letter(all_values[i])
ProcessFitrepFilesLocal ==
    /\ pc = "call"
    /\ ret' = [i \in DOMAIN arg |-> ScoreToLetterLocal(arg[i])]
    /\ calls' = <<"process_fitrep_files_local">>
    /\ pc' = "done"
    /\ UNCHANGED <<checkbox_fallback_mode, strict_no_defaults, expected_count, page,
                   result, rowinfo, arg>>
    /\ UNCHANGED instVars

NextLetter == ProcessSingleFitrepForRs \/ CreateTraitScores \/ ProcessFitrepFilesLocal

SpecLetter == InitLetter /\ [][NextLetter]_vars

\* C5: over 1..8 every consumer conversion is one-to-one: two different
\* column values never give the same letter, in every upload path.
C5_ScoreToLetterOneToOne ==
    pc # "call" =>
        \A i, j \in DOMAIN arg : arg[i] # arg[j] => ret[i] # ret[j]

-----------------------------------------------------------------------------
(* The cell-scoring detectors on a page with a single clear mark *)

BlankSeed == [f \in Features |-> Blank]

\* darkness of the mark above the background of its cell, and the length of
\* its strokes
MarkLevels == {50, 300}

\* a page of n rows whose only mark is in row r, column c
SingleMarkPage(r, c, level, n) ==
    [MkPage(BlankSeed, "full", n) EXCEPT
        !.strokes[r][c] = level,
        !.cells[r][c] = [dark |-> 100 + level, edge |-> level, diag |-> level,
                         has_x |-> level > 100]]

InitCell ==
    /\ NewInstance
    /\ expected_count = MaxRows
    /\ arg \in [r : 1..MaxRows, c : Cols, level : MarkLevels]
    /\ page = SingleMarkPage(arg.r, arg.c, arg.level, MaxRows)
    /\ pc = "call"
    /\ result = None
    /\ calls = <<>>
    /\ checkbox_fallback_mode = "auto"
    /\ strict_no_defaults = TRUE
    /\ rowinfo = <<>>
    /\ ret = None

CallGridVector ==
    /\ pc = "call"
    /\ result' = GridVectorValues(page, expected_count)
    /\ calls' = <<"grid_vector">>
    /\ pc' = "done"
    /\ UNCHANGED <<checkbox_fallback_mode, strict_no_defaults, expected_count, page,
                   rowinfo, arg, ret>>
    /\ UNCHANGED instVars

CallGridHybrid ==
    /\ pc = "call"
    /\ result' = GridHybridValues(page, expected_count)
    /\ ret' = GridHybridAdj(page, expected_count)
    /\ calls' = <<"grid_hybrid">>
    /\ pc' = "done"
    /\ UNCHANGED <<checkbox_fallback_mode, strict_no_defaults, expected_count, page,
                   rowinfo, arg>>
    /\ UNCHANGED instVars

CallGridMarkfill ==
    /\ pc = "call"
    /\ result' = GridMarkfillValues(page, expected_count)
    /\ ret' = GridMarkfillAdj(page, expected_count)
    /\ calls' = <<"grid_markfill">>
    /\ pc' = "done"
    /\ UNCHANGED <<checkbox_fallback_mode, strict_no_defaults, expected_count, page,
                   rowinfo, arg>>
    /\ UNCHANGED instVars

CallGridImage ==
    /\ pc = "call"
    /\ result' = GridImageValues(page, expected_count)
    /\ ret' = GridImageAdj(page, expected_count)
    /\ calls' = <<"grid_image">>
    /\ pc' = "done"
    /\ UNCHANGED <<checkbox_fallback_mode, strict_no_defaults, expected_count, page,
                   rowinfo, arg>>
    /\ UNCHANGED instVars

NextCell == CallGridVector \/ CallGridHybrid \/ CallGridMarkfill \/ CallGridImage

SpecCell == InitCell /\ [][NextCell]_vars

\* C6: on a page with a single clear mark in row r, column c (any c in 1..8),
\* each of grid_hybrid, grid_image, grid_markfill and grid_vector returns c
\* for row r.
C6_SingleMarkIsReturned ==
    pc = "done" => result[arg.r] = arg.c

-----------------------------------------------------------------------------
(* Grid reconstruction: the columns each strategy builds *)

\* grid_image, columns via projection: bounds = [x_left] + selected +
\* [x_right] with seven separators, else nine equally spaced bounds;
\* None when "x_right <= x_left + 8"
ProjectionBounds(x_left, x_right, selected) ==
    IF x_right <= x_left + 8 THEN None
    ELSE IF Len(selected) = 7 THEN Some(<<x_left>> \o selected \o <<x_right>>)
    ELSE Some([i \in 1..(NumCols + 1) |->
                  x_left + ((i - 1) * (x_right - x_left)) \div 8])

\* a letter row whose letters stand in the order A..H, evenly or unevenly
EvenHeader == [l \in 1..NumCols |-> 100 + 40 * l]
UnevenHeader == <<100, 120, 140, 160, 180, 240, 300, 360>>

\* the row with the letters of `missing` not found
Without(layout, missing) == [l \in (1..NumCols) \ missing |-> layout[l]]

HeaderInputs ==
    {[kind |-> "header", src |-> src, cmap |-> Without(layout, missing)] :
        src \in {"text", "pdf", "ocr"},
        layout \in {EvenHeader, UnevenHeader, FullHeader},
        missing \in {m \in SUBSET (1..NumCols) : Cardinality(m) <= MaxMissing}}

\* vertical rules: the nine of the grid, one of them drawn twice, one more
\* far to the right, or one too few
VectorInputs ==
    {[kind |-> "vector", v |-> v] :
        v \in {GridLines(1).v,
               GridLines(1).v \o <<GridLines(1).v[3] + 24>>,
               GridLines(1).v \o <<12 * 900>>,
               SubSeq(GridLines(1).v, 1, NumCols)}}

ProjectionInputs ==
    {[kind |-> "projection", x_left |-> 100, x_right |-> xr, selected |-> sel] :
        xr \in {105, 109, 120, 900},
        sel \in {<<>>, <<200, 300, 400, 500, 600, 700, 800>>, <<200, 300, 400>>}}

InitGrid ==
    /\ NewInstance
    /\ arg \in HeaderInputs \cup VectorInputs \cup
               {g \in ProjectionInputs : g.selected = <<>> \/ g.x_right = 900}
    /\ pc = "call"
    /\ ret = None
    /\ checkbox_fallback_mode = "auto"
    /\ strict_no_defaults = TRUE
    /\ expected_count = 1
    /\ page = None
    /\ result = None
    /\ calls = <<>>
    /\ rowinfo = <<>>

\* the header row is accepted by the detector that reads it
HeaderAccepted(src, cmap) ==
    IF src = "text" THEN TextHeaderFound(cmap)
    ELSE IF src = "ocr" THEN HeaderFound(cmap, 200)
    ELSE HeaderFound(cmap, 150)

\* header-letter interpolation: eight centres (times span)
ReconstructFromHeader ==
    /\ pc = "call" /\ arg.kind = "header"
    /\ ret' = IF HeaderAccepted(arg.src, arg.cmap)
              THEN Some(HeaderCentres(arg.cmap).ordered) ELSE None
    /\ pc' = "done"
    /\ UNCHANGED <<checkbox_fallback_mode, strict_no_defaults, expected_count, page,
                   result, calls, rowinfo, arg>>
    /\ UNCHANGED instVars

\* vector clustering: nine boundaries
ReconstructFromLines ==
    /\ pc = "call" /\ arg.kind = "vector"
    /\ ret' = LET g == GridGeometry([h |-> GridLines(expected_count).h, v |-> arg.v],
                                    expected_count)
              IN  IF g = None THEN None ELSE Some(g[1].xs)
    /\ pc' = "done"
    /\ UNCHANGED <<checkbox_fallback_mode, strict_no_defaults, expected_count, page,
                   result, calls, rowinfo, arg>>
    /\ UNCHANGED instVars

\* raster projection: nine boundaries
ReconstructFromProjection ==
    /\ pc = "call" /\ arg.kind = "projection"
    /\ ret' = ProjectionBounds(arg.x_left, arg.x_right, arg.selected)
    /\ pc' = "done"
    /\ UNCHANGED <<checkbox_fallback_mode, strict_no_defaults, expected_count, page,
                   result, calls, rowinfo, arg>>
    /\ UNCHANGED instVars

NextGrid == ReconstructFromHeader \/ ReconstructFromLines \/ ReconstructFromProjection

SpecGrid == InitGrid /\ [][NextGrid]_vars

\* the number of columns a list of centres or of boundaries delimits
ColumnCount(kind, positions) ==
    IF kind = "header" THEN Len(positions) ELSE Len(positions) - 1

StrictlyIncreasing(positions) ==
    \A i, j \in DOMAIN positions : i < j => positions[i] < positions[j]

\* C7: every strategy that accepts a geometry yields exactly 8 columns whose
\* positions are strictly increasing from column 1 to column 8, also for
\* header rows with missing, interpolated letters.
C7_EightIncreasingColumns ==
    (pc = "done" /\ ret # None) =>
        /\ ColumnCount(arg.kind, ret[1]) = NumCols
        /\ StrictlyIncreasing(ret[1])

-----------------------------------------------------------------------------
(* Specification of extract_from_bytes on one document *)

\* the trait pages show nothing, or the same marks to the text layer and to
\* the vector detector
DocSeeds ==
    {[f \in Features |-> IF f \in {"marks", "strokes"} THEN p ELSE Blank] :
        p \in {Blank, <<<<1>>, <<5>>>>, <<<<4>>, <<4>>>>}}

FoundSets == {AdminFields, {}, AdminFields \ {"fitrep_id"}, AdminFields \ {"grade"},
              AdminFields \ {"ro_edipi", "ro_last_name"}}

Docs ==
    [openable : {TRUE}, npages : 0..MaxPages, found : FoundSets,
     raises : {"none", "names", "occ"}, not_observed : BOOLEAN, seed : DocSeeds]
        \cup [openable : {FALSE}, npages : {0}, found : {{}}, raises : {"none"},
              not_observed : {FALSE}, seed : {BlankSeed}]

InitDoc ==
    /\ NewInstance
    /\ checkbox_fallback_mode \in Modes
    /\ strict_no_defaults \in BOOLEAN
    /\ arg \in Docs
    /\ pc = "call"
    /\ ret = None
    /\ calls = <<>>
    /\ rowinfo = <<>>
    /\ expected_count = 0
    /\ page = None
    /\ result = None

\* rowinfo keeps the outcome, calls the steps taken
CallExtractFromBytes ==
    /\ pc = "call"
    /\ \E run \in {ExtractFromBytes(arg, checkbox_fallback_mode, strict_no_defaults)} :
           /\ ret' = run.ret
           /\ calls' = run.events
           /\ rowinfo' = <<run.outcome>>
    /\ pc' = "done"
    /\ UNCHANGED <<checkbox_fallback_mode, strict_no_defaults, expected_count, page,
                   result, arg>>
    /\ UNCHANGED instVars

CallExtractFromPdf ==
    /\ pc = "call"
    /\ \E run \in {ExtractFromPdf(arg, checkbox_fallback_mode, strict_no_defaults)} :
           /\ ret' = run.ret
           /\ calls' = run.events
           /\ rowinfo' = <<run.outcome>>
    /\ pc' = "done"
    /\ UNCHANGED <<checkbox_fallback_mode, strict_no_defaults, expected_count, page,
                   result, arg>>
    /\ UNCHANGED instVars

NextDoc == CallExtractFromBytes \/ CallExtractFromPdf

SpecDoc == InitDoc /\ [][NextDoc]_vars

IsAutoCall(e) == e \in {"auto:2", "auto:3", "auto:4"}

\* the trait values a returned value carries
TraitValues(r) ==
    IF r = None THEN {}
    ELSE {k \in {"page2_values", "page3_values", "page4_values"} : r[1][k] # None}

\* C3: when the page-1 not-observed signal is set, no checkbox detector is
\* invoked for any of pages 2-4, the result carries no trait values, and in
\* every run the check precedes any trait extraction.
C3_NotObservedSkipsTraits ==
    pc = "done" =>
        /\ (arg.openable /\ arg.npages > 0 /\ arg.not_observed) =>
              /\ \A i \in DOMAIN calls : ~IsAutoCall(calls[i])
              /\ TraitValues(ret) = {}
        /\ \A i \in DOMAIN calls :
              IsAutoCall(calls[i]) /\ arg.npages > 0 =>
                  \E j \in 1..(i - 1) : calls[j] = "check_not_observed"

\* a four-page document with marked trait pages and the signal set, whose
\* page-1 locators all return
C3_Witness ==
    /\ pc = "done"
    /\ arg.openable /\ arg.npages = 4 /\ arg.not_observed /\ arg.raises = "none"
    /\ arg.seed["marks"] # Blank
    /\ \E i \in DOMAIN calls : calls[i] = "check_not_observed"
    /\ ret = None

\* C10: an administrative scalar that cannot be found is recovered locally:
\* the extraction completes with a result in which every administrative
\* field is present (with its value or an explicit null), and a failure
\* inside a field locator never makes the whole extraction fail.
C10_MissingScalarIsNullField ==
    (pc = "done" /\ arg.openable /\ arg.npages > 0 /\ ~arg.not_observed) =>
        /\ ret # None
        /\ \A f \in AdminFields : f \in DOMAIN ret[1]

-----------------------------------------------------------------------------
(* process_single_pdf, process_directory *)

\* '' : the empty string, a sequence of no characters
EmptyStr == <<>>

\* the order of the ten administrative columns of a row
AdminOrder == <<"fitrep_id", "last_name", "grade", "occ", "to_date", "marine_edipi",
                "rs_last_name", "rs_edipi", "ro_last_name", "ro_edipi">>

\* data.get(key, '')
DataGet(data, key) == IF key \in DOMAIN data THEN data[key] ELSE EmptyStr

\* "p = data.get('pageK_values') or []; row.extend((p + [''] * n)[:n])"
PadValues(p, n) ==
    LET q == IF p = None THEN <<>> ELSE p
    IN  [i \in 1..n |-> IF i <= Len(q) THEN q[i] ELSE EmptyStr]

\* the CSV row of an extracted document
Row(data) ==
    [i \in 1..Len(AdminOrder) |-> DataGet(data, AdminOrder[i])]
        \o PadValues(data["page2_values"], 5)
        \o PadValues(data["page3_values"], 5)
        \o PadValues(data["page4_values"], 4)

\* a variant that counts the file whether or not it gave data
CountedAlways(self, run) ==
    [results |-> IF run.ret # None THEN Append(self.results, Row(run.ret[1]))
                 ELSE self.results,
     pdf_count |-> self.pdf_count + 1, data |-> run.ret, outcome |-> run.outcome]

\* "if data:" append the row and count the file
Counted(self, run) ==
    IF run.ret # None
    THEN [results |-> Append(self.results, Row(run.ret[1])),
          pdf_count |-> self.pdf_count + 1, data |-> run.ret, outcome |-> run.outcome]
    ELSE [results |-> self.results, pdf_count |-> self.pdf_count,
          data |-> run.ret, outcome |-> run.outcome]

\* process_single_pdf: data = self.extract_from_pdf(pdf_path), then the
\* above.  The instance attributes afterwards.
ProcessSinglePdf(self, d) == Counted(self, ExtractFromPdf(d, self.mode, self.strict))

\* rank_order of rank_sort_key
RankOrder ==
    <<[grade |-> <<"G", "E", "N">>, rank |-> 1],
      [grade |-> <<"L", "T", "G", "E", "N">>, rank |-> 2],
      [grade |-> <<"M", "A", "J", "G", "E", "N">>, rank |-> 3],
      [grade |-> <<"B", "G", "E", "N">>, rank |-> 4],
      [grade |-> <<"C", "O", "L">>, rank |-> 5],
      [grade |-> <<"L", "T", "C", "O", "L">>, rank |-> 6],
      [grade |-> <<"M", "A", "J">>, rank |-> 7],
      [grade |-> <<"C", "A", "P", "T">>, rank |-> 8],
      [grade |-> <<"1", "S", "T", "L", "T">>, rank |-> 9],
      [grade |-> <<"2", "N", "D", "L", "T">>, rank |-> 10],
      [grade |-> <<"C", "W", "O", "5">>, rank |-> 11],
      [grade |-> <<"C", "W", "O", "4">>, rank |-> 12],
      [grade |-> <<"C", "W", "O", "3">>, rank |-> 13],
      [grade |-> <<"C", "W", "O", "2">>, rank |-> 14],
      [grade |-> <<"W", "O">>, rank |-> 15],
      [grade |-> <<"S", "G", "T", "M", "A", "J">>, rank |-> 16],
      [grade |-> <<"1", "S", "T", "S", "G", "T">>, rank |-> 17],
      [grade |-> <<"M", "G", "Y", "S", "G", "T">>, rank |-> 18],
      [grade |-> <<"G", "Y", "S", "G", "T">>, rank |-> 19],
      [grade |-> <<"S", "S", "G", "T">>, rank |-> 20],
      [grade |-> <<"S", "G", "T">>, rank |-> 21]>>

\* rank_sort_key: 99 for no grade and for a grade rank_order does not list
RankSortKey(grade) ==
    IF grade = EmptyStr THEN 99
    ELSE LET grade_upper == [i \in DOMAIN grade |-> Upper(grade[i])]
             hits == {k \in DOMAIN RankOrder : RankOrder[k].grade = grade_upper}
         IN  IF hits = {} THEN 99 ELSE RankOrder[CHOOSE k \in hits : TRUE].rank

\* the order of the characters: digits, capitals, small letters
CharOrd(ch) ==
    LET all == <<"0", "1", "2", "3", "4", "5", "6", "7", "8", "9">>
                   \o UpperCase \o LowerCase
    IN  CHOOSE i \in DOMAIN all : all[i] = ch

\* a < b on str: the first position at which they differ decides
StrLess(a, b) ==
    \E k \in 1..(Len(a) + 1) :
        /\ \A i \in 1..(k - 1) : i <= Len(b) /\ a[i] = b[i]
        /\ k <= Len(b)
        /\ k <= Len(a) => (a[k] # b[k] /\ CharOrd(a[k]) < CharOrd(b[k]))

\* key=lambda x: (self.rank_sort_key(x[2]), x[1], x[0])
SortKey(row) == <<RankSortKey(row[3]), row[2], row[1]>>

\* src/fitrep_extractor.py: key=lambda x: (self.rank_sort_key(x[1]), x[0]),
\* on the same row layout [fitrep_id, last_name, grade, ...]
SortKeyLegacy(row) == <<RankSortKey(row[2]), row[1], EmptyStr>>

\* a < b on the key tuples
KeyLess(a, b) ==
    \/ a[1] < b[1]
    \/ a[1] = b[1] /\ StrLess(a[2], b[2])
    \/ a[1] = b[1] /\ a[2] = b[2] /\ StrLess(a[3], b[3])

\* list.sort(key=...): a stable sort
SortBy(rows, Key(_)) ==
    LET Insert(sorted, row) ==
            LET k == Cardinality({i \in DOMAIN sorted :
                                    ~KeyLess(Key(row), Key(sorted[i]))})
            IN  SubSeq(sorted, 1, k) \o <<row>> \o SubSeq(sorted, k + 1, Len(sorted))
        S[i \in 0..Len(rows)] == IF i = 0 THEN <<>> ELSE Insert(S[i - 1], rows[i])
    IN  S[Len(rows)]

SortResults(rows) == SortBy(rows, SortKey)

SortResultsLegacy(rows) == SortBy(rows, SortKeyLegacy)

-----------------------------------------------------------------------------
(* Specification of one extractor instance serving several calls *)

\* self: the attributes of the instance a method can read
Self == [mode |-> checkbox_fallback_mode, strict |-> strict_no_defaults,
         results |-> results, pdf_count |-> pdf_count]

\* a variant whose output depends on what the instance processed before
InstanceExtractStateful(self, d) ==
    IF self.pdf_count > 0
    THEN [ret |-> None, outcome |-> "failed", events |-> <<>>]
    ELSE ExtractFromBytes(d, self.mode, self.strict)

\* extract_from_bytes as a method of the instance: of self it reads only the
\* configuration
InstanceExtract(self, d) == ExtractFromBytes(d, self.mode, self.strict)

\* a corrupt file, a not-observed report, a report whose coordinate name
\* locator raises, and a four-page report with marks
MarkedSeed ==
    [f \in Features |-> IF f \in {"marks", "strokes"} THEN <<<<1>>, <<5>>>> ELSE Blank]

InstanceDocs ==
    {d \in Docs :
        \/ ~d.openable
        \/ /\ d.found = AdminFields
           /\ d.npages = 4
           /\ \/ d.not_observed /\ d.raises = "none" /\ d.seed = BlankSeed
              \/ ~d.not_observed /\ d.raises = "names" /\ d.seed = BlankSeed
              \/ ~d.not_observed /\ d.raises = "none" /\ d.seed = MarkedSeed}

InitInstance ==
    /\ checkbox_fallback_mode \in Modes
    /\ strict_no_defaults \in BOOLEAN
    /\ NewInstance
    /\ pc = "idle"
    /\ arg = None
    /\ ret = None
    /\ calls = <<>>
    /\ rowinfo = <<>>
    /\ expected_count = 0
    /\ page = None
    /\ result = None

\* a caller runs extract_from_bytes on this instance
InstExtractFromBytes ==
    /\ Len(history) + pdf_count < MaxCalls
    /\ \E d \in InstanceDocs :
          \E run \in {InstanceExtract(Self, d)} :
              /\ ret' = run.ret
              /\ history' = Append(history, [doc |-> d, out |-> run.ret,
                                            outcome |-> run.outcome,
                                            pdf_count |-> pdf_count])
    /\ UNCHANGED <<checkbox_fallback_mode, strict_no_defaults, expected_count, page, pc,
                   result, calls, rowinfo, arg, results, pdf_count>>

\* a caller runs process_single_pdf on this instance
InstProcessSinglePdf ==
    /\ Len(history) + pdf_count < MaxCalls
    /\ \E d \in InstanceDocs :
          \E after \in {ProcessSinglePdf(Self, d)} :
              /\ after.data # None
              /\ results' = after.results
              /\ pdf_count' = after.pdf_count
    /\ UNCHANGED <<checkbox_fallback_mode, strict_no_defaults, expected_count, page, pc,
                   result, calls, rowinfo, arg, ret, history>>

NextInstance == InstExtractFromBytes \/ InstProcessSinglePdf

SpecInstance == InitInstance /\ [][NextInstance]_vars

\* C4: a not-observed document yields an outcome the caller can tell apart
\* from a failed extraction: the two are never the same returned value.
C4_NotObservedDistinctFromFailure ==
    \A i, j \in DOMAIN history :
        (history[i].outcome = "not_observed" /\ history[j].outcome = "failed")
            => history[i].out # history[j].out

-----------------------------------------------------------------------------
(* Claims about a document that cannot be opened *)

\* C11: when the input cannot be opened, extract_from_pdf and
\* extract_from_bytes return no result at all (no administrative field, no
\* trait value), after a single attempt to open it and without running any
\* locator or detector.
C11_OpenFailureIsFailure ==
    (pc = "done" /\ ~arg.openable) =>
        /\ ret = None
        /\ rowinfo = <<"failed">>
        /\ calls = <<"open_failed">>

\* a document that could not be opened has been handled
C11_Witness == pc = "done" /\ ~arg.openable /\ ret = None

-----------------------------------------------------------------------------
(* Specification of batch processing: process_directory and /extract-batch *)

\* a corrupt file, a not-observed report, a four-page report with marks, and
\* a one-page report on which no administrative scalar is found
BatchDocs ==
    {d \in Docs :
        \/ ~d.openable
        \/ /\ d.found = AdminFields /\ d.npages = 4 /\ d.raises = "none"
           /\ \/ d.not_observed /\ d.seed = BlankSeed
              \/ ~d.not_observed /\ d.seed = MarkedSeed
        \/ /\ d.found = {} /\ d.npages = 1 /\ d.raises = "none"
           /\ ~d.not_observed /\ d.seed = BlankSeed}

\* arg: the files of the batch in the order they are taken; history: the
\* process_single_pdf calls made; calls: the entries /extract-batch collected
InitBatch ==
    /\ checkbox_fallback_mode \in Modes
    /\ strict_no_defaults \in BOOLEAN
    /\ NewInstance
    /\ arg \in SeqsUpTo(BatchDocs, MaxFiles)
    /\ pc \in {"directory", "endpoint"}
    /\ ret = None
    /\ calls = <<>>
    /\ rowinfo = <<>>
    /\ expected_count = 0
    /\ page = None
    /\ result = None

\* process_directory, one turn of "for pdf_file in pdf_files"
ProcessDirectoryStep ==
    /\ pc = "directory"
    /\ Len(history) < Len(arg)
    /\ \E after \in {ProcessSinglePdf(Self, arg[Len(history) + 1])} :
          /\ results' = after.results
          /\ pdf_count' = after.pdf_count
          /\ history' = Append(history, [doc |-> arg[Len(history) + 1], out |-> after.data,
                                        outcome |-> after.outcome, pdf_count |-> pdf_count])
    /\ UNCHANGED <<checkbox_fallback_mode, strict_no_defaults, expected_count, page, pc,
                   result, calls, rowinfo, arg, ret>>

\* process_directory after the loop: False for an empty directory, else
\* sort the rows and return True
ProcessDirectoryFinish ==
    /\ pc = "directory"
    /\ Len(history) = Len(arg)
    /\ results' = SortResults(results)
    /\ ret' = Some(arg # <<>>)
    /\ pc' = "directory_done"
    /\ UNCHANGED <<checkbox_fallback_mode, strict_no_defaults, expected_count, page,
                   result, calls, rowinfo, arg, pdf_count, history>>

\* /extract-batch, one turn of "for file in files": the entry appended for
\* the file, whatever the extraction returned
ExtractBatchStep ==
    /\ pc = "endpoint"
    /\ Len(calls) < Len(arg)
    /\ \E run \in {ExtractFromPdf(arg[Len(calls) + 1], checkbox_fallback_mode,
                                   strict_no_defaults)} :
          calls' = Append(calls, [status |-> "success", data |-> run.ret])
    /\ UNCHANGED <<checkbox_fallback_mode, strict_no_defaults, expected_count, page, pc,
                   result, rowinfo, arg, ret>>
    /\ UNCHANGED instVars

\* /extract-batch after the loop: the summary returned
ExtractBatchFinish ==
    /\ pc = "endpoint"
    /\ Len(calls) = Len(arg)
    /\ ret' = Some([total_files |-> Len(arg),
                    successful |-> Cardinality({i \in DOMAIN calls :
                                                  calls[i].status = "success"}),
                    failed |-> Cardinality({i \in DOMAIN calls :
                                              calls[i].status = "error"})])
    /\ pc' = "endpoint_done"
    /\ UNCHANGED <<checkbox_fallback_mode, strict_no_defaults, expected_count, page,
                   result, calls, rowinfo, arg>>
    /\ UNCHANGED instVars

NextBatch ==
    \/ ProcessDirectoryStep
    \/ ProcessDirectoryFinish
    \/ ExtractBatchStep
    \/ ExtractBatchFinish

SpecBatch == InitBatch /\ [][NextBatch]_vars

\* the files of the batch that gave no data
FailedFiles == {i \in DOMAIN arg : ExtractFromPdf(arg[i], checkbox_fallback_mode,
                                                  strict_no_defaults).ret = None}

-----------------------------------------------------------------------------
(* score_cell on the pixels of one ROI *)

\* The ROI is rx0 <= x < rx1, ry0 <= y < ry1, here 1..RoiW by 1..RoiH; an
\* image gives 255 - px[x, y] for each of its pixels.
RoiPixels == (1..RoiW) \X (1..RoiH)

SumOver(S, f(_)) ==
    LET RECURSIVE Sum(_)
        Sum(T) == IF T = {} THEN 0
                  ELSE LET t == CHOOSE t \in T : TRUE IN f(t) + Sum(T \ {t})
    IN  Sum(S)

\* dark += 255 - px[xx, yy] over the ROI
RoiDark(img) == SumOver(RoiPixels, LAMBDA q : img[q])

\* edge += abs(gx) + abs(gy) over range(ry0+1, ry1-1) x range(rx0+1, rx1-1)
RoiEdge(img) ==
    SumOver((2..(RoiW - 1)) \X (2..(RoiH - 1)),
            LAMBDA q : Abs(img[<<q[1] + 1, q[2]>>] - img[<<q[1] - 1, q[2]>>])
                         + Abs(img[<<q[1], q[2] + 1>>] - img[<<q[1], q[2] - 1>>]))

\* the darkness along both diagonals through (cx + off, cy), inside the ROI
DiagAt(img, off) ==
    LET cx == 1 + (RoiW \div 2)
        cy == 1 + (RoiH \div 2)
        span == MaxOf({4, MinOf({RoiW, RoiH}) \div 2})
        At(x, y) == IF <<x, y>> \in RoiPixels THEN img[<<x, y>>] ELSE 0
    IN  SumOver((-span)..(span - 1),
                LAMBDA k : At(cx + k + off, cy + k) + At(cx - k + off, cy + k))

\* best_xcorr over off in (-4, -2, 0, 2, 4), starting from 0.0
RoiDiag(img) == MaxOf({0} \cup {DiagAt(img, off) : off \in {-4, -2, 0, 2, 4}})

\* score_cell of grid_hybrid on an ROI, times 10; has_x is what pytesseract
\* answers for the cropped cell
ScoreRoi10(img, has_x) ==
    ScoreCell10([dark |-> RoiDark(img), edge |-> RoiEdge(img), diag |-> RoiDiag(img),
                 has_x |-> has_x])

\* The marks scored: a darkened cell with at most MaxHoles pixels left
\* unmarked ([holes |-> h]), and an X of two one-pixel strokes; Inked gives
\* the pixels of a mark drawn at an ink level.
RECURSIVE HolesUpTo(_)
HolesUpTo(k) ==
    IF k = 0 THEN {{}}
    ELSE LET fewer == HolesUpTo(k - 1)
         IN  fewer \cup {h \cup {q} : h \in fewer, q \in RoiPixels}
HoleSets == HolesUpTo(MaxHoles)
CrossMark == {q \in RoiPixels : q[1] = q[2] \/ q[1] + q[2] = RoiW + 1}
InkLevels == {85, 170, 255}

MarkPixels(mark) ==
    IF mark.shape = "cross" THEN CrossMark ELSE RoiPixels \ mark.holes

Inked(cell) ==
    [q \in RoiPixels |-> IF q \in MarkPixels(cell.mark) THEN cell.level ELSE 0]

\* arg: the same cell twice, hi at least as dark as lo in every pixel.
\* "scaled": the same mark at a higher ink level; "filled": some of the
\* unmarked pixels of the cell inked as well.
ScoreInputs ==
    {[kind |-> "scaled", lo |-> [mark |-> mk, level |-> l1],
      hi |-> [mark |-> mk, level |-> l2], has_x_lo |-> x1, has_x_hi |-> x2] :
        mk \in {[shape |-> "cross", holes |-> {}]}
                  \cup {[shape |-> "filled", holes |-> {q}] : q \in RoiPixels},
        l1 \in InkLevels, l2 \in {l \in InkLevels : l >= 170},
        x1 \in BOOLEAN, x2 \in BOOLEAN}
    \cup
    {[kind |-> "filled", lo |-> [mark |-> [shape |-> "filled", holes |-> hs[1]], level |-> 255],
      hi |-> [mark |-> [shape |-> "filled", holes |-> hs[2]], level |-> 255],
      has_x_lo |-> x, has_x_hi |-> x] :
        hs \in {hs \in HoleSets \X HoleSets : hs[2] \subseteq hs[1]}, x \in BOOLEAN}

InitScore ==
    /\ NewInstance
    /\ arg \in {a \in ScoreInputs : a.lo.level <= a.hi.level}
    /\ pc = "call"
    /\ ret = <<>>
    /\ checkbox_fallback_mode = "auto"
    /\ strict_no_defaults = TRUE
    /\ expected_count = 0
    /\ page = None
    /\ result = None
    /\ calls = <<>>
    /\ rowinfo = <<>>

\* score_cell is called for the lighter and then for the darker cell
ScoreCell ==
    /\ pc = "call"
    /\ \E img \in {Inked(IF ret = <<>> THEN arg.lo ELSE arg.hi)} :
          ret' = Append(ret, ScoreRoi10(img, IF ret = <<>> THEN arg.has_x_lo
                                             ELSE arg.has_x_hi))
    /\ pc' = IF ret = <<>> THEN "call" ELSE "done"
    /\ UNCHANGED <<checkbox_fallback_mode, strict_no_defaults, expected_count, page,
                   result, calls, rowinfo, arg>>
    /\ UNCHANGED instVars

NextScore == ScoreCell

SpecScore == InitScore /\ [][NextScore]_vars

\* C13 as stated: the composite score does not decrease when the pixels of
\* the marked cell's ROI get darker (the OCR hint being the same).
C13_ScoreMonotoneInDarkness ==
    (pc = "done" /\ arg.has_x_lo = arg.has_x_hi) => ret[1] <= ret[2]

\* C13 amended: the composite score does not decrease when the ink level of
\* one and the same mark is raised and the OCR hint is not lost.
C13_ScoreMonotoneInInkLevel ==
    (pc = "done" /\ arg.kind = "scaled" /\ (arg.has_x_lo => arg.has_x_hi))
        => ret[1] <= ret[2]

\* a mark scored at a lower and at a strictly higher ink level
C13_Witness ==
    /\ pc = "done"
    /\ arg.kind = "scaled"
    /\ arg.lo # arg.hi
    /\ arg.has_x_lo = arg.has_x_hi
    /\ ret[1] < ret[2]

-----------------------------------------------------------------------------
(* Specification of the auto chain: selection, recheck, strict filter *)

\* the pages above and pages on which no anchor of a grid exists at all
ChainPages(n) == Pages(n) \cup {MkPage(sd, "none", n) : sd \in SeedsOne}

InitChain ==
    /\ NewInstance
    /\ checkbox_fallback_mode = "auto"
    /\ strict_no_defaults \in BOOLEAN
    /\ expected_count = MaxRows
    /\ page \in ChainPages(MaxRows)
    /\ pc = "call"
    /\ result = None
    /\ calls = <<>>
    /\ rowinfo = <<>>
    /\ arg = None
    /\ ret = None

\* extract_checkbox_values_auto in auto mode.  ret keeps what the chain
\* selected before the recheck (primary, its row decisions, the detectors
\* tried) and the rows after the recheck; result is what the call returns.
RunChain ==
    /\ pc = "call"
    /\ \E sel \in {AutoSelection(page, expected_count)} :
       \E rec \in {Recheck(sel, page, expected_count)} :
       \E run \in {StrictResult(rec, strict_no_defaults, expected_count)} :
           /\ ret' = Some([primary |-> sel.result, info |-> sel.rowinfo,
                           tried |-> sel.calls, merged |-> rec.result])
           /\ result' = run.result
           /\ calls' = run.calls
           /\ rowinfo' = run.rowinfo
    /\ pc' = "done"
    /\ UNCHANGED <<checkbox_fallback_mode, strict_no_defaults, expected_count, page, arg>>
    /\ UNCHANGED instVars

NextChain == RunChain

SpecChain == InitChain /\ [][NextChain]_vars

\* the place of a detector in the order the specification states: vector
\* clustering (1), raster-projection geometry (2), header-anchor geometry
\* (3), the OCR-anchored fallback (4); 0 for the text pass
StatedRank(name) ==
    IF name \in {"grid_vector", "grid_markfill", "grid_hybrid"} THEN 1
    ELSE IF name = "grid_image" THEN 2
    ELSE IF name \in {"row_bands", "image_peaks", "vector_paths"} THEN 3
    ELSE IF name = "ocr_fallback" THEN 4
    ELSE 0

\* C14: in auto mode the strategies are attempted in the stated order:
\* vector clustering, raster-projection geometry, header-anchor geometry,
\* OCR-anchored fallback, none before one that precedes it.
C14_StatedPriorityOrder ==
    pc = "done" =>
        \A i, j \in DOMAIN ret[1].tried :
            (i < j /\ StatedRank(ret[1].tried[i]) > 0)
                => StatedRank(ret[1].tried[i]) <= StatedRank(ret[1].tried[j])

\* what each strategy of the chain returns for the page, in the order of
\* the chain
ChainOutputs(pg, n) ==
    <<GridVectorValues(pg, n), GridMarkfillValues(pg, n), GridHybridValues(pg, n),
      RowBandsValues(pg, n), ImagePeaksValues(pg, n), VectorPathsValues(pg, n),
      GridImageValues(pg, n), OcrFallbackValues(pg, n)>>

ChainNames == <<"grid_vector", "grid_markfill", "grid_hybrid", "row_bands",
                "image_peaks", "vector_paths", "grid_image", "ocr_fallback">>

\* C15: the result before reconciliation is the output of the first strategy
\* of the chain whose output is non-degenerate, and no strategy after it
\* was run.
C15_FirstNonDegenerateWins ==
    pc = "done" =>
        LET outs == ChainOutputs(page, expected_count)
            good == {k \in DOMAIN outs : NonDegenerate(outs[k], expected_count)}
        IN  good # {} =>
                LET first == CHOOSE k \in good : \A j \in good : k <= j
                IN  /\ ret[1].primary = outs[first]
                    /\ ret[1].tried = <<"text_based">> \o SubSeq(ChainNames, 1, first)

\* C16: no degenerate output (all rows identical, or all rows the default)
\* is accepted as the primary result, whichever strategy supplied it.
C16_NoDegeneratePrimary ==
    pc = "done" => NonDegenerate(ret[1].primary, expected_count)

\* the two alternates of the recheck both selected column c for row r
AlternatesAgree(pg, n, r, c) ==
    /\ GridHybridInfo(pg, n)[r] = "sel"
    /\ GridHybridValues(pg, n)[r] = c
    /\ RowBandsInfo(pg, n)[r] = "argmax"
    /\ RowBandsValues(pg, n)[r] = c

\* C17: in the reconciliation step a row's primary value is replaced if and
\* only if the row had a weak margin and both alternates selected one and
\* the same column, different from the primary; otherwise it stands.
C17_OverrideOnlyOnAgreement ==
    pc = "done" =>
        \A r \in 1..expected_count :
            (ret[1].merged[r] # ret[1].primary[r])
                <=> /\ ret[1].info[r] = "weak"
                    /\ \E c \in Cols \ {ret[1].primary[r]} :
                          /\ AlternatesAgree(page, expected_count, r, c)
                          /\ ret[1].merged[r] = c

\* no line, no header row in the text and none read by OCR
NoAnchors(pg) == pg.header = <<>> /\ pg.ocr_header = <<>> /\ pg.lines = NoLines

InitGiveUp == InitChain /\ NoAnchors(page)

SpecGiveUp == InitGiveUp /\ [][NextChain]_vars /\ WF_vars(NextChain)

-----------------------------------------------------------------------------
(* The cell-scoring detectors on pages with clear, weak and missing marks *)

\* each page shows one pattern of strokes and one of dark cells; the grid
\* lines, the OCR header, or neither are there
ScorerPages(n) ==
    {MkPage([f \in Features |-> IF f = "strokes" THEN ps
                                ELSE IF f = "cells" THEN pc_ ELSE Blank], g, n) :
        ps \in Patterns, pc_ \in Patterns, g \in {"full", "nolines", "none"}}

InitScorer ==
    /\ NewInstance
    /\ expected_count = MaxRows
    /\ page \in ScorerPages(MaxRows)
    /\ arg = None
    /\ pc = "call"
    /\ result = None
    /\ calls = <<>>
    /\ checkbox_fallback_mode = "auto"
    /\ strict_no_defaults = TRUE
    /\ rowinfo = <<>>
    /\ ret = None

SpecScorer == InitScorer /\ [][NextCell]_vars

\* the detector found its geometry, scored row r, and the arg-max of the
\* row's adjusted scores passed the detector's margin test
Confident(name, pg, n, r) ==
    CASE name = "grid_vector" -> GridVectorInfo(pg, n)[r] = "sel"
      [] name = "grid_hybrid" -> GridHybridInfo(pg, n)[r] = "sel"
      [] name = "grid_markfill" ->
            /\ MarkfillGeometry(pg) /\ HasFparam
            /\ LET adj == GridMarkfillAdj(pg, n)[1][r]
                   best_idx == ArgMaxFirst(adj)
               IN  MarkfillMarginOK(adj[best_idx], SecondBest(adj, best_idx))
      [] name = "grid_image" ->
            /\ pg.cells # <<>> /\ HasFparam /\ r \in DOMAIN pg.cells
            /\ LET adj == ImageAdj200(pg.cells, r)
                   best_idx == ArgMaxFirst(adj)
               IN  ~(adj[best_idx] <= 0
                        \/ 20 * adj[best_idx] < 23 * SecondBest(adj, best_idx))

\* C19: a cell-scoring detector returns one of the 8 columns for a row only
\* if that column is the arg-max of the row's adjusted scores and passed the
\* margin test; in every other case the row's result is not one of the 8
\* columns, so that "unknown" can be told from a confident selection.
C19_UnknownIsNotAColumn ==
    pc = "done" =>
        \A r \in 1..expected_count :
            result[r] \in Cols => Confident(calls[1], page, expected_count, r)

\* the median of column c of the raw scores over all rows, times 2
ColumnMedian2(raw, c) == Median2([q \in DOMAIN raw |-> raw[q][c]])

\* the raw scores, times 10, that the named scorer gives the cells of a page
RawScores(name, pg) ==
    [r \in DOMAIN pg.cells |->
        [c \in 1..NumCols |->
            IF name = "grid_markfill" THEN MarkfillScore10(pg.cells[r][c])
            ELSE ScoreCell10(pg.cells[r][c])]]

\* C20: every raster cell scorer (grid_hybrid, grid_image, grid_markfill)
\* compares, in each row, the raw scores reduced by 0.90 times the median of
\* the cell's column over all rows of the page.
C20_PerColumnBaseline ==
    (pc = "done" /\ calls[1] # "grid_vector"
        /\ GridGeometry(page.lines, expected_count) # None) =>
        /\ ret # None
        /\ LET raw == RawScores(calls[1], page)
           IN  \A r \in 1..expected_count : \A c \in 1..NumCols :
                   ret[1][r][c] = 20 * raw[r][c] - 9 * ColumnMedian2(raw, c)

-----------------------------------------------------------------------------
(* Vector clustering on pages with too few, doubled and stray lines *)

\* what is drawn besides the rules of the grid: nothing, a rule drawn twice,
\* a stray line before, after, or on both sides of the grid; "short" is the
\* grid with its last rule missing
LineExtras == {"exact", "double", "before", "after", "both", "short"}

DrawnLines(rules, extra) ==
    CASE extra = "exact"  -> rules
      [] extra = "double" -> rules \o <<rules[2] + 24>>
      [] extra = "before" -> <<12>> \o rules
      [] extra = "after"  -> rules \o <<12 * 900>>
      [] extra = "both"   -> <<12>> \o rules \o <<12 * 900>>
      [] extra = "short"  -> SubSeq(rules, 1, Len(rules) - 1)

InitLines ==
    /\ NewInstance
    /\ expected_count \in 1..MaxRows
    /\ arg \in {[h |-> DrawnLines(GridLines(expected_count).h, eh),
                 v |-> DrawnLines(GridLines(expected_count).v, ev)] :
                    eh \in LineExtras, ev \in LineExtras}
    /\ pc = "call"
    /\ ret = None
    /\ checkbox_fallback_mode = "auto"
    /\ strict_no_defaults = TRUE
    /\ page = None
    /\ result = None
    /\ calls = <<>>
    /\ rowinfo = <<>>

\* the clustering of grid_vector and of grid_hybrid, up to the accepted
\* boundaries ys, xs
ClusterGridLines ==
    /\ pc = "call"
    /\ ret' = GridGeometry(arg, expected_count)
    /\ pc' = "done"
    /\ UNCHANGED <<checkbox_fallback_mode, strict_no_defaults, expected_count, page,
                   result, calls, rowinfo, arg>>
    /\ UNCHANGED instVars

NextLines == ClusterGridLines

SpecLines == InitLines /\ [][NextLines]_vars

Span(ps) == IF ps = <<>> THEN 0 ELSE MaxOf(Range(ps)) - MinOf(Range(ps))

\* the runs of `size` consecutive positions of the sorted sequence ps
Runs(ps, size) == {SubSeq(ps, i, i + size - 1) : i \in 1..(Len(ps) - size + 1)}

\* kept is the run of maximal span, and the first one of that span
WidestRun(kept, ps, size) ==
    \E i \in 1..(Len(ps) - size + 1) :
        /\ kept = SubSeq(ps, i, i + size - 1)
        /\ \A w \in Runs(ps, size) : Span(w) <= Span(kept)
        /\ \A j \in 1..(i - 1) : Span(SubSeq(ps, j, j + size - 1)) < Span(kept)

\* kept spans at least as much as any `size` of the positions
WidestSubset(kept, ps, size) ==
    /\ Len(kept) = size
    /\ Range(kept) \subseteq Range(ps)
    /\ \A S \in SUBSET Range(ps) :
          Cardinality(S) = size => MaxOf(S) - MinOf(S) <= Span(kept)

\* C21 (as stated): vector clustering accepts a geometry only with N + 1
\* horizontal and 9 vertical clustered positions; with fewer it cannot
\* reconstruct; with more it keeps the N + 1 (resp. 9) positions that span
\* the widest range among all subsets of that size.
C21_WidestOfAllSubsets ==
    pc = "done" =>
        LET ys0 == ClusterPositions(arg.h, 48)
            xs0 == ClusterPositions(arg.v, 48)
        IN  IF Len(ys0) < expected_count + 1 \/ Len(xs0) < NumCols + 1
            THEN ret = None
            ELSE /\ ret # None
                 /\ WidestSubset(ret[1].ys, ys0, expected_count + 1)
                 /\ WidestSubset(ret[1].xs, xs0, NumCols + 1)

\* C21 (amended): the same, but with more positions it keeps the first run
\* of N + 1 (resp. 9) consecutive clustered positions of maximal span.
C21_WidestOfConsecutiveRuns ==
    pc = "done" =>
        LET ys0 == ClusterPositions(arg.h, 48)
            xs0 == ClusterPositions(arg.v, 48)
        IN  IF Len(ys0) < expected_count + 1 \/ Len(xs0) < NumCols + 1
            THEN ret = None
            ELSE /\ ret # None
                 /\ WidestRun(ret[1].ys, ys0, expected_count + 1)
                 /\ WidestRun(ret[1].xs, xs0, NumCols + 1)

\* a stray line after the grid: ten vertical positions, and the nine kept
\* are not the first nine
C21_Witness ==
    /\ pc = "done" /\ ret # None
    /\ Len(ClusterPositions(arg.v, 48)) > NumCols + 1
    /\ ret[1].xs[1] # ClusterPositions(arg.v, 48)[1]

-----------------------------------------------------------------------------
(* A detector that fails internally *)

\* grid_markfill and grid_image reach their first self._fparam(...) once the
\* columns are reconstructed; the AttributeError is caught by the detector's
\* own "except Exception"
Raises(name, pg) ==
    \/ name = "grid_markfill" /\ MarkfillGeometry(pg) /\ ~HasFparam
    \/ name = "grid_image" /\ pg.cells # <<>> /\ ~HasFparam

\* C22: a detector that fails internally returns a value that can be told
\* from every successful detection result, in particular from column 4 in
\* every row.
C22_FailureIsInspectable ==
    (pc = "done" /\ Raises(calls[1], page)) =>
        result \notin [1..expected_count -> Cols]

-----------------------------------------------------------------------------
(* The grade of the first page *)

\* normalize_grade_token: strip, upper-case, keep only the alphanumerics
NormalizeGradeToken(s) ==
    SelectSeq([i \in DOMAIN s |-> Upper(s[i])], IsAlnum)

ValidGrades ==
    {<<"S", "G", "T">>, <<"S", "S", "G", "T">>, <<"G", "Y", "S", "G", "T">>, <<"M", "S", "G", "T">>, <<"M", "G", "Y", "S", "G", "T">>, <<"1", "S", "T", "S", "G", "T">>, <<"S", "G", "T", "M", "A", "J">>,
     <<"2", "N", "D", "L", "T">>, <<"1", "S", "T", "L", "T">>, <<"C", "A", "P", "T">>, <<"M", "A", "J">>, <<"L", "T", "C", "O", "L">>, <<"C", "O", "L">>,
     <<"W", "O">>, <<"C", "W", "O", "2">>, <<"C", "W", "O", "3">>, <<"C", "W", "O", "4">>, <<"C", "W", "O", "5">>,
     <<"B", "G", "E", "N">>, <<"M", "A", "J", "G", "E", "N">>, <<"L", "T", "G", "E", "N">>, <<"G", "E", "N">>}

\* grade_mapping, in the order of the dict
GradeMapping ==
    <<[grade |-> <<"M", "A", "J">>,
       variations |-> <<<<"M", "A", "J">>, <<"M", "A", "S">>, <<"M", "A">>, <<"M", "J">>, <<"M", "A", "J", "O", "R">>, <<"M", "A", "I">>, <<"M", "A", "T">>>>],
      [grade |-> <<"L", "T", "C", "O", "L">>,
       variations |-> <<<<"L", "T", "C", "O", "L">>, <<"L", "R", "C", "O", "L">>, <<"L", "T", "C", "O">>, <<"L", "T", "C">>, <<"L", "T", "C", "L">>, <<"L", "I", "C", "O", "L">>, <<"I", "R", "C", "O", "L">>>>],
      [grade |-> <<"M", "G", "Y", "S", "G", "T">>,
       variations |-> <<<<"M", "G", "Y", "S", "G", "T">>, <<"M", "G", "Y", "S", "T">>, <<"M", "G", "S", "G">>, <<"M", "G", "Y", "S", "G">>, <<"M", "G", "Y", "S", "G", "I">>>>],
      [grade |-> <<"M", "S", "G", "T">>,
       variations |-> <<<<"M", "S", "G", "T">>, <<"S", "C", "R">>, <<"M", "S", "G">>, <<"M", "S", "G", "I">>, <<"M", "S", "T">>>>],
      [grade |-> <<"G", "Y", "S", "G", "T">>,
       variations |-> <<<<"G", "Y", "S", "G", "T">>, <<"G", "Y", "S", "G">>, <<"G", "Y", "S", "T">>, <<"G", "S", "G", "T">>>>],
      [grade |-> <<"S", "S", "G", "T">>,
       variations |-> <<<<"S", "S", "G", "T">>, <<"S", "S", "G">>, <<"S", "S", "G", "I">>, <<"S", "S", "T">>>>],
      [grade |-> <<"1", "S", "T", "S", "G", "T">>,
       variations |-> <<<<"1", "S", "T", "S", "G", "T">>, <<"I", "S", "T", "S", "G", "T">>, <<"1", "S", "T", "S", "G">>, <<"I", "S", "T", "S", "G">>>>],
      [grade |-> <<"S", "G", "T", "M", "A", "J">>,
       variations |-> <<<<"S", "G", "T", "M", "A", "J">>, <<"S", "G", "T", "M", "A">>, <<"S", "G", "M", "A", "J">>, <<"S", "G", "T", "M", "A", "S">>>>]>>

\* the first token of toks that normalises to a valid grade, or None
FirstValidGrade(toks) ==
    LET norm == [i \in DOMAIN toks |-> NormalizeGradeToken(toks[i])]
        hits == {i \in DOMAIN norm : norm[i] \in ValidGrades}
    IN  IF hits = {} THEN None ELSE Some(norm[MinOf(hits)])

\* a variant that puts the variation read by OCR in the result
VariantGradeAsRead(toks) ==
    LET norm == {NormalizeGradeToken(toks[i]) : i \in DOMAIN toks}
        hits == {m \in DOMAIN GradeMapping :
                    \E v \in DOMAIN GradeMapping[m].variations :
                        GradeMapping[m].variations[v] \in norm}
    IN  IF hits = {} THEN None
        ELSE LET vs == GradeMapping[MinOf(hits)].variations
             IN  Some(vs[MinOf({v \in DOMAIN vs : vs[v] \in norm})])

\* "Partial/variation mapping": the first grade of grade_mapping one of whose
\* variations is among the normalised tokens of the top third
VariantGrade(toks) ==
    LET norm == {NormalizeGradeToken(toks[i]) : i \in DOMAIN toks}
        hits == {m \in DOMAIN GradeMapping :
                    \E v \in DOMAIN GradeMapping[m].variations :
                        GradeMapping[m].variations[v] \in norm}
    IN  IF hits = {} THEN None ELSE Some(GradeMapping[MinOf(hits)].grade)

\* the strategies in the order they run; each reads its own part of the page
GradeStrategies ==
    <<"fixed", "text_top", "text_label", "ocr_top", "ocr_variant", "ocr_label",
      "occ_block", "surname">>

\* what strategy k finds on the page, whatever was found before.  pg.fixed
\* is None when the crop or its OCR raises; pg.ocr_label, pg.occ_block and
\* pg.surname are None without a Grade label, an OCC block found through
\* normalisation, and a last name
StrategyFinds(k, pg) ==
    CASE k = "fixed"       -> IF pg.fixed = None THEN None
                              ELSE FirstValidGrade(pg.fixed[1])
      [] k = "text_top"    -> FirstValidGrade(pg.text_top)
      [] k = "text_label"  -> FirstValidGrade(pg.text_label)
      [] k = "ocr_top"     -> FirstValidGrade(pg.ocr_top)
      [] k = "ocr_variant" -> VariantGrade(pg.ocr_top)
      [] k = "ocr_label"   -> IF pg.ocr_label = None THEN None
                              ELSE FirstValidGrade(pg.ocr_label[1])
      [] k = "occ_block"   -> IF pg.occ_block = None THEN None
                              ELSE FirstValidGrade(pg.occ_block[1])
      [] k = "surname"     -> IF pg.surname = None THEN None
                              ELSE FirstValidGrade(pg.surname[1])

\* the grade after each strategy: "if not grade_value" and
\* "if not data.get('grade')" guard every strategy after the first
GradeTrace(pg) ==
    LET G[k \in 0..Len(GradeStrategies)] ==
            IF k = 0 THEN <<>>
            ELSE LET before == IF k = 1 THEN None ELSE G[k - 1][k - 1]
                 IN  Append(G[k - 1],
                            IF before # None THEN before
                            ELSE StrategyFinds(GradeStrategies[k], pg))
    IN  G[Len(GradeStrategies)]

\* the tokens a page may show: grades in several spellings, OCR variations of
\* grades, a name, and a grade that is not in the vocabulary
GradeTokens ==
    {<<"C", "a", "p", "t", ".">>, <<"1", "s", "t", "L", "t">>, <<"M", "A", "J">>, <<"M", "A", "S">>, <<"S", "C", "R">>, <<"S", "M", "I", "T", "H">>, <<"L", "C", "P", "L">>}

GradeReadings ==
    {<<>>} \cup {<<t>> : t \in GradeTokens}
        \cup {<<<<"S", "M", "I", "T", "H">>, <<"C", "a", "p", "t", ".">>>>, <<<<"M", "A", "S">>, <<"M", "A", "J">>>>,
              <<<<"S", "C", "R">>, <<"M", "A", "S">>>>}

GradeSources == {"fixed", "text_top", "text_label", "ocr_top", "ocr_label",
                 "occ_block", "surname"}

\* a page on which the sources f1 and f2 read r1 and r2 and every other
\* source reads nothing
GradePage(f1, r1, f2, r2, absent) ==
    LET reads(f) == IF f = f1 THEN r1 ELSE IF f = f2 THEN r2 ELSE <<>>
        opt(f) == IF f \in absent THEN None ELSE Some(reads(f))
    IN  [fixed      |-> opt("fixed"),
         text_top   |-> reads("text_top"),
         text_label |-> reads("text_label"),
         ocr_top    |-> reads("ocr_top"),
         ocr_label  |-> opt("ocr_label"),
         occ_block  |-> opt("occ_block"),
         surname    |-> opt("surname")]

GradePages ==
    {GradePage(f1, r1, f2, r2, absent) :
        f1 \in GradeSources, r1 \in GradeReadings,
        f2 \in {"ocr_top", "surname"}, r2 \in GradeReadings,
        absent \in {{}, {"fixed"}, {"ocr_label", "occ_block", "surname"}}}

InitGrade ==
    /\ NewInstance
    /\ arg \in GradePages
    /\ pc = "call"
    /\ ret = None
    /\ checkbox_fallback_mode = "auto"
    /\ strict_no_defaults = TRUE
    /\ expected_count = 1
    /\ page = None
    /\ result = None
    /\ calls = <<>>
    /\ rowinfo = <<>>

\* the part of _extract_from_document that fills data['grade']: result is
\* the field, None when the key is not set; calls is the grade after each
\* strategy
ExtractGrade ==
    /\ pc = "call"
    /\ \E trace \in {GradeTrace(arg)} :
          /\ calls' = trace
          /\ result' = trace[Len(trace)]
    /\ pc' = "done"
    /\ UNCHANGED <<checkbox_fallback_mode, strict_no_defaults, expected_count, page,
                   rowinfo, arg, ret>>
    /\ UNCHANGED instVars

NextGrade == ExtractGrade

SpecGrade == InitGrade /\ [][NextGrade]_vars

\* C23: a grade placed in the result is a member of valid_grades, whichever
\* strategy produced it, and once a strategy has produced a grade no later
\* strategy replaces it.
C23_GradeInVocabularyAndKept ==
    pc = "done" =>
        /\ result # None => result[1] \in ValidGrades
        /\ \A i, j \in DOMAIN calls :
              (i < j /\ calls[i] # None) => calls[j] = calls[i]
        /\ \A k \in DOMAIN calls :
              (\A i \in 1..(k - 1) : calls[i] = None) =>
                  calls[k] = StrategyFinds(GradeStrategies[k], arg)

\* the OCR variation "MAS" gave MAJ, and the surname line, which reads a
\* different valid grade, did not replace it
C23_Witness ==
    /\ pc = "done"
    /\ result = Some(<<"M", "A", "J">>)
    /\ calls[4] = None /\ calls[5] # None
    /\ StrategyFinds("surname", arg) = Some(<<"C", "A", "P", "T">>)

-----------------------------------------------------------------------------
(* check_not_observed *)

\* the three boxes a. Adverse, b. Not Observed, c. Extended of a first page
\* rendered at scale 3: the centre of each label, in pixels
BoxNames == <<"adverse", "not_observed", "extended">>
LabelCentre(form, box) ==
    CASE box = "adverse"      -> 600 - form.spacing
      [] box = "not_observed" -> 600
      [] box = "extended"     -> 600 + form.spacing

\* what OCR reads of the form: the label centres, the top of the label row,
\* and the X tokens with their centre and top; None when OCR raises
FormOcr(form) ==
    IF form.ocr_fails THEN None
    ELSE Some([centers |-> [b \in {BoxNames[i] : i \in 1..3}
                                  \ (IF form.label_found THEN {} ELSE {"not_observed"})
                              |-> LabelCentre(form, b)],
               label_y |-> 500,
               x_marks |-> IF form.checked = "none" THEN <<>>
                           ELSE <<[cx |-> LabelCentre(form, form.checked) + form.offset,
                                   top |-> 540]>>])

\* check_not_observed of pdf-processor: the X of the band nearest to the
\* Not Observed centre lies within 80 pixels of it
CheckNotObserved(ocr) ==
    IF ocr = None THEN FALSE
    ELSE IF "not_observed" \notin DOMAIN ocr[1].centers THEN FALSE
    ELSE LET band == SelectSeq(ocr[1].x_marks,
                        LAMBDA m : 0 <= m.top - ocr[1].label_y /\ m.top - ocr[1].label_y <= 120)
             target == ocr[1].centers["not_observed"]
         IN  /\ band # <<>>
             /\ MinOf({Abs(band[i].cx - target) : i \in DOMAIN band}) < 80

\* the text of the form as lines: what each line contains and whether it is
\* shorter than 50 characters; the X of a checked box is a line of its own
FormText(form) ==
    (IF form.label_found /\ ~form.ocr_fails
     THEN <<[label |-> TRUE, has_X |-> FALSE, extended |-> TRUE, short |-> TRUE]>>
     ELSE <<>>)
    \o (IF form.checked # "none" /\ ~form.ocr_fails
        THEN <<[label |-> FALSE, has_X |-> TRUE, extended |-> FALSE, short |-> TRUE]>>
        ELSE <<>>)

\* check_not_observed of src/fitrep_extractor.py: a short line with an X and
\* without "Extended" among the label line and the two lines after it
CheckNotObservedText(lines) ==
    \E i \in DOMAIN lines :
        /\ lines[i].label
        /\ \E j \in i..(i + 2) :
              /\ j \in DOMAIN lines
              /\ lines[j].has_X /\ ~lines[j].extended /\ lines[j].short

Forms ==
    [spacing : {100, 200}, checked : {"none", "adverse", "not_observed", "extended"},
     offset : {-30, 0, 30}, label_found : BOOLEAN, ocr_fails : BOOLEAN]

InitNotObserved ==
    /\ NewInstance
    /\ arg \in Forms
    /\ pc = "call"
    /\ ret = None
    /\ checkbox_fallback_mode = "auto"
    /\ strict_no_defaults = TRUE
    /\ expected_count = 1
    /\ page = None
    /\ result = None
    /\ calls = <<>>
    /\ rowinfo = <<>>

CallCheckNotObserved ==
    /\ pc = "call"
    /\ ret' = Some(CheckNotObserved(FormOcr(arg)))
    /\ calls' = <<"pdf-processor">>
    /\ pc' = "done"
    /\ UNCHANGED <<checkbox_fallback_mode, strict_no_defaults, expected_count, page,
                   result, rowinfo, arg>>
    /\ UNCHANGED instVars

CallCheckNotObservedText ==
    /\ pc = "call"
    /\ ret' = Some(CheckNotObservedText(FormText(arg)))
    /\ calls' = <<"src">>
    /\ pc' = "done"
    /\ UNCHANGED <<checkbox_fallback_mode, strict_no_defaults, expected_count, page,
                   result, rowinfo, arg>>
    /\ UNCHANGED instVars

NextNotObserved == CallCheckNotObserved \/ CallCheckNotObservedText

SpecNotObserved == InitNotObserved /\ [][NextNotObserved]_vars

\* C24: check_not_observed returns true only when "Not Observed" is the
\* checked box, so it returns false when the only X belongs to "Extended" or
\* "Adverse"; it returns false when the label is not found or OCR fails.
C24_TrueOnlyForNotObserved ==
    pc = "done" =>
        /\ ret[1] => arg.checked = "not_observed"
        /\ (~arg.label_found \/ arg.ocr_fails) => ~ret[1]

-----------------------------------------------------------------------------
(* The document handle of _extract_from_document *)

\* a document: its number of pages, whether "Not Observed" is checked on the
\* first page, and the step at which processing raises, if any
HandleSteps == <<"page1", "page2", "page3", "page4">>
HandleDocs ==
    [pages : 0..MaxPages, not_observed : BOOLEAN,
     raises_at : {"none"} \cup {HandleSteps[i] : i \in 1..4}]

InitHandle ==
    /\ NewInstance
    /\ arg \in HandleDocs
    /\ pc = "page1"
    /\ ret = [open |-> TRUE, reads_after_close |-> 0]
    /\ calls = <<>>
    /\ result = None
    /\ checkbox_fallback_mode = "auto"
    /\ strict_no_defaults = TRUE
    /\ expected_count = 1
    /\ page = None
    /\ rowinfo = <<>>

\* doc[k] on the handle h
ReadPage(h) ==
    [h EXCEPT !.reads_after_close = IF h.open THEN @ ELSE @ + 1]

\* doc.close()
CloseDoc(h) == [h EXCEPT !.open = FALSE]

\* a variant of the finally clause that leaves the handle as it is
FinallyCloseSkipped(h) == h

\* "finally: try: doc.close() except Exception: pass"
FinallyClose(h) == CloseDoc(h)

\* step k reads page k when the document has it
PageStep(k) ==
    /\ pc = HandleSteps[k]
    /\ IF arg.pages >= k
       THEN /\ ret' = ReadPage(ret)
            /\ calls' = Append(calls, "read")
            /\ pc' = IF arg.raises_at = HandleSteps[k] THEN "except"
                     ELSE IF k = 1 THEN "not_observed"
                     ELSE IF k = 4 THEN "close" ELSE HandleSteps[k + 1]
       ELSE /\ UNCHANGED <<ret, calls>>
            /\ pc' = IF k = 4 THEN "close" ELSE HandleSteps[k + 1]
    /\ UNCHANGED <<checkbox_fallback_mode, strict_no_defaults, expected_count, page,
                   result, rowinfo, arg>>
    /\ UNCHANGED instVars

ReadPages == \E k \in 1..4 : PageStep(k)

\* "if not_observed: doc.close(); return None"
NotObservedReturn ==
    /\ pc = "not_observed"
    /\ IF arg.not_observed
       THEN /\ ret' = CloseDoc(ret)
            /\ calls' = Append(calls, "close")
            /\ pc' = "finally"
       ELSE /\ UNCHANGED <<ret, calls>>
            /\ pc' = "page2"
    /\ UNCHANGED <<checkbox_fallback_mode, strict_no_defaults, expected_count, page,
                   result, rowinfo, arg>>
    /\ UNCHANGED instVars

\* "doc.close() ... return data"
CloseAndReturn ==
    /\ pc = "close"
    /\ ret' = CloseDoc(ret)
    /\ calls' = Append(calls, "close")
    /\ result' = Some("data")
    /\ pc' = "finally"
    /\ UNCHANGED <<checkbox_fallback_mode, strict_no_defaults, expected_count, page,
                   rowinfo, arg>>
    /\ UNCHANGED instVars

\* "except Exception as e: ... return None"
HandleException ==
    /\ pc = "except"
    /\ pc' = "finally"
    /\ UNCHANGED <<checkbox_fallback_mode, strict_no_defaults, expected_count, page,
                   result, calls, rowinfo, arg, ret>>
    /\ UNCHANGED instVars

Finally ==
    /\ pc = "finally"
    /\ ret' = FinallyClose(ret)
    /\ calls' = Append(calls, "finally")
    /\ pc' = "done"
    /\ UNCHANGED <<checkbox_fallback_mode, strict_no_defaults, expected_count, page,
                   result, rowinfo, arg>>
    /\ UNCHANGED instVars

NextHandle ==
    ReadPages \/ NotObservedReturn \/ CloseAndReturn \/ HandleException \/ Finally

SpecHandle == InitHandle /\ [][NextHandle]_vars /\ WF_vars(NextHandle)

\* C25: on every path out of _extract_from_document (a result, the
\* not-observed return, an internal exception) the call ends with the
\* document closed, and no page is read after the document was closed.
C25_HandleReleasedOnEveryPath ==
    /\ [](pc = "done" => ~ret.open)
    /\ [](ret.reads_after_close = 0)
    /\ <>(pc = "done")

\* the call left through the exception handler, before any close of the
\* normal path, and the handle is closed
C25_Witness ==
    /\ pc = "done"
    /\ arg.raises_at = "page3" /\ arg.pages >= 3 /\ ~arg.not_observed
    /\ "close" \notin Range(calls)
    /\ ~ret.open

-----------------------------------------------------------------------------
(* process_directory: the order of the rows *)

\* what extract_from_pdf returned for the files of a directory: reports that
\* differ in grade and last name, each with its own FITREP ID; a grade is
\* missing from one, and MSGT is a grade rank_order does not list
SortGrades == {EmptyStr, <<"C", "O", "L">>, <<"C", "A", "P", "T">>, <<"S", "G", "T">>, <<"M", "S", "G", "T">>}
SortNames == {<<"A", "D", "A", "M", "S">>, <<"B", "A", "K", "E", "R">>}
SortIds == <<<<"1", "0", "0", "0", "0", "0", "1">>, <<"1", "0", "0", "0", "0", "0", "2">>, <<"1", "0", "0", "0", "0", "0", "3">>, <<"1", "0", "0", "0", "0", "0", "4">>, <<"1", "0", "0", "0", "0", "0", "5">>>>

ReportData(id, name, grade) ==
    [key \in {"fitrep_id", "last_name", "page2_values", "page3_values", "page4_values"}
              \cup (IF grade = EmptyStr THEN {} ELSE {"grade"}) |->
        CASE key = "fitrep_id" -> id
          [] key = "last_name" -> name
          [] key = "grade" -> grade
          [] OTHER -> None]

Directories ==
    UNION {[1..n -> SortNames \X SortGrades] : n \in 0..MaxFiles}

InitSort ==
    /\ NewInstance
    /\ \E dir \in Directories :
          arg = [i \in DOMAIN dir |-> ReportData(SortIds[i], dir[i][1], dir[i][2])]
    /\ pc = "call"
    /\ ret = None
    /\ calls = <<>>
    /\ result = None
    /\ checkbox_fallback_mode = "auto"
    /\ strict_no_defaults = TRUE
    /\ expected_count = 0
    /\ page = None
    /\ rowinfo = <<>>

\* process_directory of pdf-processor, every file giving data
ProcessDirectory ==
    /\ pc = "call"
    /\ results' = SortResults([i \in DOMAIN arg |-> Row(arg[i])])
    /\ pdf_count' = Len(arg)
    /\ calls' = <<"pdf-processor">>
    /\ ret' = Some(arg # <<>>)
    /\ pc' = "done"
    /\ UNCHANGED <<checkbox_fallback_mode, strict_no_defaults, expected_count, page,
                   result, rowinfo, arg, history>>

\* process_directory of src/fitrep_extractor.py
ProcessDirectoryLegacy ==
    /\ pc = "call"
    /\ results' = SortResultsLegacy([i \in DOMAIN arg |-> Row(arg[i])])
    /\ pdf_count' = Len(arg)
    /\ calls' = <<"src">>
    /\ ret' = Some(arg # <<>>)
    /\ pc' = "done"
    /\ UNCHANGED <<checkbox_fallback_mode, strict_no_defaults, expected_count, page,
                   result, rowinfo, arg, history>>

NextSort == ProcessDirectory \/ ProcessDirectoryLegacy

SpecSort == InitSort /\ [][NextSort]_vars

\* C26: after process_directory of either implementation the rows are in
\* the order of rank_sort_key of their grade field, and rows of the same
\* rank are in the order of their last names.
C26_RowsInRankOrder ==
    pc = "done" =>
        \A i, j \in DOMAIN results :
            i < j =>
                \/ RankSortKey(results[i][3]) < RankSortKey(results[j][3])
                \/ /\ RankSortKey(results[i][3]) = RankSortKey(results[j][3])
                   /\ ~StrLess(results[j][2], results[i][2])

-----------------------------------------------------------------------------
(* extract_checkbox_values_auto for every expected_count *)

InitAutoAny ==
    /\ NewInstance
    /\ checkbox_fallback_mode \in Modes
    /\ strict_no_defaults \in BOOLEAN
    /\ expected_count \in 1..MaxRows
    /\ page \in Pages(expected_count)
    /\ pc = "call"
    /\ result = None
    /\ calls = <<>>
    /\ rowinfo = <<>>
    /\ arg = None
    /\ ret = None

SpecAutoAny == InitAutoAny /\ [][NextAuto]_vars

\* C27: extract_checkbox_values_auto returns None or a list of exactly
\* expected_count integers in 1..8, and None only when strict_no_defaults is
\* set and the mode is not off.
C27_NoneOrFullList ==
    pc = "done" =>
        IF result = None
        THEN strict_no_defaults /\ checkbox_fallback_mode # "off"
        ELSE result \in [1..expected_count -> Cols]

\* vector_paths found fewer rows than asked, padded its list, and the padded
\* list was returned
C27_Witness ==
    /\ pc = "done"
    /\ result # None
    /\ calls[Len(calls)] = "vector_paths"
    /\ Len(page.paths) < expected_count
    /\ result = VectorPathsValues(page, expected_count)

\* C28: in auto mode, a page on which the detector of highest priority,
\* grid_vector, confidently selects one same column c in every row (c = 4
\* included) is returned as [c] * expected_count: it is not discarded as
\* unknown and not replaced by the answer of a detector of lower priority.
C28_UniformPageIsReturned ==
    (/\ pc = "done"
     /\ checkbox_fallback_mode = "auto"
     /\ \E c \in Cols : \A r \in 1..expected_count :
           /\ GridVectorInfo(page, expected_count)[r] = "sel"
           /\ GridVectorValues(page, expected_count)[r] = c)
        => result = GridVectorValues(page, expected_count)

\* C29: the reconciliation keeps the length of the list, leaves every row
\* that is not rechecked as it was, and never puts in a rechecked row the
\* default 4 of an alternate detector that could not reconstruct the grid.
C29_ReconciliationFrame ==
    pc = "done" =>
        LET primary == ret[1].primary
            merged == ret[1].merged
        IN  /\ Len(merged) = Len(primary)
            /\ \A r \in DOMAIN primary :
                  /\ primary[r] # 1 => merged[r] = primary[r]
                  /\ (merged[r] # primary[r] /\ merged[r] = DefaultCol) =>
                        /\ GridGeometry(page.lines, expected_count) # None
                        /\ RowBandsFound(page)

-----------------------------------------------------------------------------
(* extract_checkbox_values_text_based on two marks, without a header row *)

\* the x of an X mark, in points: below, between and beyond the thresholds
MarkXs == {50, 110, 150, 200, 300, 400, 500, 550, 599, 600, 650, 699, 700, 750}

\* a page of two rows of X marks and no letter row
TwoMarkPage(x1, x2) ==
    [MkPage(BlankSeed, "noheader", 2) EXCEPT !.marks = <<x1, x2>>]

InitThreshold ==
    /\ NewInstance
    /\ arg \in [x1 : MarkXs, x2 : MarkXs]
    /\ page = TwoMarkPage(arg.x1, arg.x2)
    /\ expected_count = 2
    /\ pc = "call"
    /\ ret = None
    /\ calls = <<>>
    /\ result = None
    /\ checkbox_fallback_mode = "off"
    /\ strict_no_defaults = TRUE
    /\ rowinfo = <<>>

CallTextBased ==
    /\ pc = "call"
    /\ result' = TextBasedValues(page, expected_count)
    /\ calls' = <<"pdf-processor">>
    /\ pc' = "done"
    /\ UNCHANGED <<checkbox_fallback_mode, strict_no_defaults, expected_count, page,
                   rowinfo, arg, ret>>
    /\ UNCHANGED instVars

CallTextBasedLegacy ==
    /\ pc = "call"
    /\ result' = TextBasedValuesLegacy(page, expected_count)
    /\ calls' = <<"src">>
    /\ pc' = "done"
    /\ UNCHANGED <<checkbox_fallback_mode, strict_no_defaults, expected_count, page,
                   rowinfo, arg, ret>>
    /\ UNCHANGED instVars

NextThreshold == CallTextBased \/ CallTextBasedLegacy

SpecThreshold == InitThreshold /\ [][NextThreshold]_vars

\* C30: without a header override, the column given to an X mark does not
\* decrease as the mark moves to the right, so that the x positions of each
\* column form one contiguous interval.
C30_ColumnMonotoneInX ==
    (pc = "done" /\ arg.x1 <= arg.x2) => result[1] <= result[2]

====
